---- MODULE Spec2Model ----
(***************************************************************************)
(* A model of the my-rdms engine: the statement parser (sql_parser.py),    *)
(* the query executor (query.py) and the index manager (index.py), driven  *)
(* through the statement entry point Database.execute.                     *)
(*                                                                         *)
(* Statement texts are modelled as records holding the identifiers and     *)
(* values as they are spelled in the text; the parser operators apply the  *)
(* case conversions the code applies.  Rows are objects of a heap, named   *)
(* by a row identifier, because the table's row list and the index buckets *)
(* hold references to the same dict.  A dict is a sequence of <<key,       *)
(* value>> pairs in insertion order.                                       *)
(***************************************************************************)
EXTENDS Integers, Sequences, FiniteSets, TLC

VARIABLES tables, indexes, heap, last, steps, requests, running

vars == <<tables, indexes, heap, last, steps, requests, running>>

(***************************************************************************)
(* Bounds of the model.                                                    *)
(***************************************************************************)
\* the number of row objects alive at a time (rows of tables and rows that
\* only an index bucket still references)
MaxRows == 2

\* the number of statements of a session
MaxStatements == 6

\* the number of statements of a session on the tables 7 and p
MaxCascadeStatements == 7

\* the number of add requests the web application receives
MaxRequests == 3

(***************************************************************************)
(* Strings: python's None, str(), str.lower() and str.upper() on the       *)
(* identifiers and values of the model.                                    *)
(***************************************************************************)
None == "<None>"

Str(v) == IF v = None THEN "None" ELSE v

Lower(s) ==
  CASE s \in {"s", "S"} -> "s"
    [] s \in {"p", "P"} -> "p"
    [] s \in {"id", "ID"} -> "id"
    [] s \in {"name", "NAME"} -> "name"
    [] s \in {"sid", "SID"} -> "sid"
    [] s \in {"null", "NULL"} -> "null"
    [] s \in {"create", "CREATE"} -> "create"
    [] OTHER -> s

Upper(s) ==
  CASE s \in {"s", "S"} -> "S"
    [] s \in {"p", "P"} -> "P"
    [] s \in {"id", "ID"} -> "ID"
    [] s \in {"name", "NAME"} -> "NAME"
    [] s \in {"sid", "SID"} -> "SID"
    [] s \in {"null", "NULL"} -> "NULL"
    [] s \in {"create", "CREATE"} -> "CREATE"
    [] OTHER -> s

(***************************************************************************)
(* Dicts in insertion order: a sequence of <<key, value>> pairs.           *)
(***************************************************************************)
Keys(d) == [i \in DOMAIN d |-> d[i][1]]

HasKey(d, k) == \E i \in DOMAIN d : d[i][1] = k

\* d.get(k, default)
GetOr(d, k, default) ==
  IF HasKey(d, k) THEN d[CHOOSE i \in DOMAIN d : d[i][1] = k][2] ELSE default

\* d.get(k)
Get(d, k) == GetOr(d, k, None)

\* d[k] = v
Put(d, k, v) ==
  IF HasKey(d, k)
  THEN [i \in DOMAIN d |-> IF d[i][1] = k THEN <<k, v>> ELSE d[i]]
  ELSE Append(d, <<k, v>>)

\* d1 == d2 on dicts: the same keys with the same values, in any order
DictEq(d1, d2) == {d1[i] : i \in DOMAIN d1} = {d2[i] : i \in DOMAIN d2}

Range(s) == {s[i] : i \in DOMAIN s}

\* the sequence s without its element at position i
RemoveAt(s, i) == [j \in 1..(Len(s) - 1) |-> IF j < i THEN s[j] ELSE s[j + 1]]

(***************************************************************************)
(* The database object: db.tables, db.indexes, and the heap of row dicts.  *)
(***************************************************************************)
DB == [tables |-> tables, indexes |-> indexes, heap |-> heap]

\* Database.table_exists(name)
table_exists(db, name) == Lower(name) \in DOMAIN db.tables

\* Database.get_table_name(name): the key of the table, or None
get_table_name(db, name) == IF table_exists(db, name) THEN Lower(name) ELSE None

\* the results of a statement: a status string with its row count, an error
\* string, an exception raised, a formatted table (lines: the header and
\* one line per row) or the list of combined rows of a join
Ok(msg, n) == [status |-> "ok", msg |-> msg, count |-> n, lines |-> <<>>, rows |-> <<>>]
Error(msg) == [status |-> "error", msg |-> msg, count |-> 0, lines |-> <<>>, rows |-> <<>>]
Raised(msg) == [status |-> "raised", msg |-> msg, count |-> 0, lines |-> <<>>, rows |-> <<>>]

Out(db, result) == [db |-> db, result |-> result]

(***************************************************************************)
(* Statement Parser (sql_parser.py).  A statement text is a record of the  *)
(* pieces of the text; the descriptor holds them as the parser leaves      *)
(* them.  A WHERE clause is the tuple <<column, operator, value>> of its   *)
(* text, and <<>> when the statement has none.                             *)
(***************************************************************************)
\* A text made of a name followed by a WHERE clause ("t where id=1"): it is
\* the name itself when there is no clause, and otherwise a string that is
\* no identifier of the model.
NameAndClause(name, where) == IF where = <<>> THEN name ELSE "<name where clause>"

parse_create_table(st) ==
  [type |-> "CREATE_TABLE",
   table |-> Lower(st.table),
   columns |-> [i \in DOMAIN st.coldefs |->
                 [name |-> st.coldefs[i].name,
                  primary_key |-> st.coldefs[i].primary_key,
                  unique |-> st.coldefs[i].unique,
                  foreign_key |-> IF st.coldefs[i].references = <<>> THEN <<>>
                                  ELSE <<Lower(st.coldefs[i].references[1]),
                                         Lower(st.coldefs[i].references[2])>>]]]

parse_insert(st) == [type |-> "INSERT", table |-> st.table, values |-> st.values]

parse_select(st) ==
  IF st.join = <<>>
  THEN [type |-> "SELECT",
        table |-> Lower(NameAndClause(Upper(st.table), st.where)),
        columns |-> IF st.columns = <<"*">> THEN st.columns
                    ELSE [i \in DOMAIN st.columns |-> Upper(st.columns[i])],
        join |-> <<>>,
        where |-> <<>>]
  ELSE [type |-> "SELECT",
        table |-> Lower(Upper(st.table)),
        columns |-> IF st.columns = <<"*">> THEN st.columns
                    ELSE [i \in DOMAIN st.columns |-> Upper(st.columns[i])],
        \* join: the joined table, then the left and the right qualified
        \* column, each as <<table, column>>
        join |-> <<Lower(Upper(st.join[1])),
                   <<Lower(Upper(st.join[2][1])), Lower(Upper(st.join[2][2]))>>,
                   <<Lower(Upper(st.join[3][1])),
                     Lower(NameAndClause(Upper(st.join[3][2]), st.where))>> >>,
        where |-> <<>>]

\* A SET value that holds the word where, in either case, is written in
\* single quotes in the text: name='2 where id=1'.  The part of the value
\* before the word, and the pieces of the part after it.
HasWhere(value) == value \in {"2 where id=1", "1 WHERE id=2"}

BeforeWhere(value) ==
  CASE value = "2 where id=1" -> "2"
    [] value = "1 WHERE id=2" -> "1"
    [] OTHER -> value

AfterWhere(value) ==
  CASE value = "2 where id=1" -> <<"id", "=", "1">>
    [] value = "1 WHERE id=2" -> <<"id", "=", "2">>
    [] OTHER -> <<>>

\* the word itself, as the value spells it
WhereWord(value) == IF value = "1 WHERE id=2" THEN "WHERE" ELSE "where"

\* two texts one after the other, as pieces: the last word of the first
\* and the first word of the second make one word
Joined(a, b) ==
  IF a = <<>> THEN b
  ELSE IF b = <<>> THEN a
  ELSE SubSeq(a, 1, Len(a) - 1) \o <<a[Len(a)] \o Head(b)>> \o Tail(b)

\* the pieces of the pairs ", col=value" of a SET clause, as written
RECURSIVE SetPieces(_)
SetPieces(updates) ==
  IF updates = <<>> THEN <<>>
  ELSE LET column == Head(updates)[1]
           value == Head(updates)[2]
           written == IF HasWhere(value)
                      THEN Joined(Joined(<<"'" \o BeforeWhere(value) \o " " \o WhereWord(value) \o " ">>,
                                         AfterWhere(value)), <<"'">>)
                      ELSE <<value>>
       IN Joined(<<", " \o column, "=">> \o written, SetPieces(Tail(updates)))

\* rest.upper().index("WHERE") finds the first WHERE after SET, the one
\* inside a quoted value included: the SET clause ends there, and the WHERE
\* clause is all the text behind it
parse_update(st) ==
  LET holding == {i \in DOMAIN st.updates : HasWhere(st.updates[i][2])}
  IN IF holding = {}
     THEN [type |-> "UPDATE", table |-> st.table, updates |-> st.updates,
           where |-> st.where]
     ELSE LET k == CHOOSE i \in holding : \A j \in holding : i <= j
              clause == IF st.where = <<>> THEN <<>>
                        ELSE <<" WHERE " \o Head(st.where)>> \o Tail(st.where)
          IN [type |-> "UPDATE", table |-> st.table,
              updates |-> SubSeq(st.updates, 1, k - 1)
                          \o << <<st.updates[k][1], BeforeWhere(st.updates[k][2])>> >>,
              where |-> Joined(Joined(AfterWhere(st.updates[k][2]), <<"'">>),
                               Joined(SetPieces(SubSeq(st.updates, k + 1, Len(st.updates))),
                                      clause))]

parse_delete(st) == [type |-> "DELETE", table |-> Upper(st.table), where |-> st.where]

parse_drop_table(st) == [type |-> "DROP_TABLE", table |-> Upper(st.table)]

parse_create_index(st) ==
  [type |-> "CREATE_INDEX", table |-> Upper(st.table),
   index_name |-> st.index_name, column |-> Upper(st.column)]

\* parse(command) on the text itself, the text being the sequence of its
\* whitespace-separated tokens: what the dispatch does with it.  It raises
\* an exception, returns a descriptor of its own (SHOW TABLES, DESCRIBE) or
\* calls the parser of one statement form.
Raise(error, msg) == [kind |-> "raise", error |-> error, msg |-> msg]

Call(parser) == [kind |-> "call", parser |-> parser]

parse_tokens(tokens) ==
  IF tokens = <<>> THEN Raise("ValueError", "Empty command")
  ELSE
    LET command_type == Upper(tokens[1])
    IN CASE command_type = "SHOW" /\ Len(tokens) > 1 /\ Upper(tokens[2]) = "TABLES" ->
              [kind |-> "descriptor", type |-> "SHOW_TABLES"]
         [] command_type = "DESCRIBE" \/ command_type = "DESC" ->
              IF Len(tokens) < 2 THEN Raise("ValueError", "DESCRIBE requires table name")
              ELSE [kind |-> "descriptor", type |-> "DESCRIBE", table |-> tokens[2]]
         [] command_type = "CREATE" /\ Len(tokens) > 1 /\ Upper(tokens[2]) = "TABLE" ->
              Call("parse_create_table")
         [] command_type = "INSERT" /\ Len(tokens) > 1 /\ Upper(tokens[2]) = "INTO" ->
              Call("parse_insert")
         [] command_type = "SELECT" -> Call("parse_select")
         [] command_type = "UPDATE" -> Call("parse_update")
         [] command_type = "DELETE" -> Call("parse_delete")
         [] command_type = "DROP" /\ Len(tokens) > 1 /\ Upper(tokens[2]) = "TABLE" ->
              Call("parse_drop_table")
         \* tokens[1] of the code, read with no length test
         [] command_type = "CREATE" /\ Len(tokens) < 2 ->
              Raise("IndexError", "list index out of range")
         [] command_type = "CREATE" /\ Upper(tokens[2]) = "INDEX" ->
              Call("parse_create_index")
         [] OTHER -> Raise("ValueError", "Unknown command")

(***************************************************************************)
(* Index Manager (index.py).                                               *)
(***************************************************************************)
\* m.setdefault(value, []).append(rid)
BucketAppend(m, value, rid) ==
  IF value \in DOMAIN m
  THEN [m EXCEPT ![value] = Append(@, rid)]
  ELSE [k \in DOMAIN m \cup {value} |-> IF k = value THEN <<rid>> ELSE m[k]]

\* the position list.remove(row) removes: the first element equal to the row
\* as a dict; 0 when there is none (list.remove raises ValueError)
RemovePos(hp, bucket, rid) ==
  IF \E i \in DOMAIN bucket : DictEq(hp[bucket[i]], hp[rid])
  THEN CHOOSE i \in DOMAIN bucket :
         /\ DictEq(hp[bucket[i]], hp[rid])
         /\ \A j \in 1..(i - 1) : ~DictEq(hp[bucket[j]], hp[rid])
  ELSE 0

\* BucketRemove with the emptied bucket left in the map
BucketRemoveKeepEmpty(hp, m, value, rid) ==
  [m EXCEPT ![value] = RemoveAt(m[value], RemovePos(hp, m[value], rid))]

\* m[value].remove(row); if not m[value]: del m[value]
BucketRemove(hp, m, value, rid) ==
  LET b == RemoveAt(m[value], RemovePos(hp, m[value], rid))
  IN IF b = <<>> THEN [k \in DOMAIN m \ {value} |-> m[k]]
     ELSE [m EXCEPT ![value] = b]

\* the index map built by a full scan of the rows, nulls left out
RECURSIVE BuildMap(_, _, _, _)
BuildMap(hp, rows, column, m) ==
  IF rows = <<>> THEN m
  ELSE LET value == Get(hp[Head(rows)], column)
       IN BuildMap(hp, Tail(rows), column,
                   IF value # None THEN BucketAppend(m, value, Head(rows)) ELSE m)

\* the declared spelling of a column, found case-insensitively; None if absent
ActualColumn(columns, column) ==
  IF \E i \in DOMAIN columns : Lower(columns[i].name) = Lower(column)
  THEN columns[CHOOSE i \in DOMAIN columns :
                 /\ Lower(columns[i].name) = Lower(column)
                 /\ \A j \in 1..(i - 1) : Lower(columns[j].name) # Lower(column)].name
  ELSE None

\* create_index that leaves an index the column already has as it is
create_indexKeepFirst(db, table_name, index_name, column) ==
  IF ~table_exists(db, table_name) THEN Out(db, Error("Table does not exist"))
  ELSE
    LET table == db.tables[Lower(table_name)]
        actual == ActualColumn(table.columns, column)
        table_key == Lower(table_name)
        old == IF table_key \in DOMAIN db.indexes THEN db.indexes[table_key] ELSE <<>>
        entry == [name |-> index_name, column |-> actual,
                  map |-> BuildMap(db.heap, table.rows, actual, <<>>)]
        new == [c \in DOMAIN old \cup {Lower(column)} |->
                  IF c \in DOMAIN old THEN old[c] ELSE entry]
    IN IF actual = None THEN Out(db, Error("Column does not exist"))
       ELSE Out([db EXCEPT !.indexes =
                   [t \in DOMAIN db.indexes \cup {table_key} |->
                      IF t = table_key THEN new ELSE db.indexes[t]]],
                Ok("Index created", 0))

create_index(db, table_name, index_name, column) ==
  IF ~table_exists(db, table_name) THEN Out(db, Error("Table does not exist"))
  ELSE
    LET table == db.tables[Lower(table_name)]
        actual == ActualColumn(table.columns, column)
        table_key == Lower(table_name)
        old == IF table_key \in DOMAIN db.indexes THEN db.indexes[table_key] ELSE <<>>
        entry == [name |-> index_name, column |-> actual,
                  map |-> BuildMap(db.heap, table.rows, actual, <<>>)]
        new == [c \in DOMAIN old \cup {Lower(column)} |->
                  IF c = Lower(column) THEN entry ELSE old[c]]
    IN IF actual = None THEN Out(db, Error("Column does not exist"))
       ELSE Out([db EXCEPT !.indexes =
                   [t \in DOMAIN db.indexes \cup {table_key} |->
                      IF t = table_key THEN new ELSE db.indexes[t]]],
                Ok("Index created", 0))

\* update_indexes_on_insert without the test for a null value
update_indexes_on_insertNull(db, table_name, rid) ==
  LET table_key == Lower(table_name)
  IN IF table_key \notin DOMAIN db.indexes THEN db
     ELSE [db EXCEPT !.indexes[table_key] =
             [c \in DOMAIN @ |->
                LET value == Get(db.heap[rid], @[c].column)
                IN [@[c] EXCEPT !.map = BucketAppend(@, value, rid)]]]

\* every index of the table gets the row in the bucket of its value
update_indexes_on_insert(db, table_name, rid) ==
  LET table_key == Lower(table_name)
  IN IF table_key \notin DOMAIN db.indexes THEN db
     ELSE [db EXCEPT !.indexes[table_key] =
             [c \in DOMAIN @ |->
                LET value == Get(db.heap[rid], @[c].column)
                IN IF value # None
                   THEN [@[c] EXCEPT !.map = BucketAppend(@, value, rid)]
                   ELSE @[c]]]

\* the first loop of update_indexes_on_update: each row leaves the bucket of
\* the value its column holds now; raised when list.remove finds no equal row
RECURSIVE RemoveOld(_, _, _, _)
RemoveOld(hp, m, rows, actual_col) ==
  IF rows = <<>> THEN [map |-> m, raised |-> FALSE]
  ELSE LET old_value == Get(hp[Head(rows)], actual_col)
       IN IF old_value \in DOMAIN m
          THEN IF RemovePos(hp, m[old_value], Head(rows)) = 0
               THEN [map |-> m, raised |-> TRUE]
               ELSE RemoveOld(hp, BucketRemove(hp, m, old_value, Head(rows)),
                              Tail(rows), actual_col)
          ELSE RemoveOld(hp, m, Tail(rows), actual_col)

\* the second loop: row[actual_col] = new_value, and the row joins the
\* bucket of the new value
RECURSIVE AddNew(_, _, _, _, _)
AddNew(hp, m, rows, actual_col, new_value) ==
  IF rows = <<>> THEN [heap |-> hp, map |-> m]
  ELSE AddNew([hp EXCEPT ![Head(rows)] = Put(@, actual_col, new_value)],
              BucketAppend(m, new_value, Head(rows)),
              Tail(rows), actual_col, new_value)

\* sd is [db, raised]; nothing is done once an error was raised
update_indexes_on_update(sd, table_name, rows_to_update, column, new_value) ==
  LET db == sd.db
      table_key == Lower(table_name)
      column_lower == Lower(column)
  IN IF sd.raised THEN sd
     ELSE IF table_key \in DOMAIN db.indexes /\ column_lower \in DOMAIN db.indexes[table_key]
     THEN LET index_data == db.indexes[table_key][column_lower]
              removed == RemoveOld(db.heap, index_data.map, rows_to_update, index_data.column)
              added == AddNew(db.heap, removed.map, rows_to_update,
                              index_data.column, new_value)
          IN IF removed.raised
             THEN [db |-> [db EXCEPT !.indexes[table_key][column_lower].map = removed.map],
                   raised |-> TRUE]
             ELSE [db |-> [db EXCEPT !.indexes[table_key][column_lower].map = added.map,
                                     !.heap = added.heap],
                   raised |-> FALSE]
     ELSE sd

\* one index of update_indexes_on_delete: every deleted row leaves the bucket
\* of its value
RECURSIVE RemoveDeleted(_, _, _, _)
RemoveDeleted(hp, m, rows, actual_col) ==
  IF rows = <<>> THEN [map |-> m, raised |-> FALSE]
  ELSE LET value == Get(hp[Head(rows)], actual_col)
       IN IF value \in DOMAIN m
          THEN IF RemovePos(hp, m[value], Head(rows)) = 0
               THEN [map |-> m, raised |-> TRUE]
               ELSE RemoveDeleted(hp, BucketRemove(hp, m, value, Head(rows)),
                                  Tail(rows), actual_col)
          ELSE RemoveDeleted(hp, m, Tail(rows), actual_col)

\* the indexes of the table, one after the other (cols: their keys)
RECURSIVE DeleteFromIndexes(_, _, _, _)
DeleteFromIndexes(sd, table_key, cols, rows) ==
  IF sd.raised \/ cols = {} THEN sd
  ELSE LET c == CHOOSE x \in cols : TRUE
           index_data == sd.db.indexes[table_key][c]
           removed == RemoveDeleted(sd.db.heap, index_data.map, rows, index_data.column)
       IN DeleteFromIndexes(
            [db |-> [sd.db EXCEPT !.indexes[table_key][c].map = removed.map],
             raised |-> removed.raised],
            table_key, cols \ {c}, rows)

update_indexes_on_delete(sd, table_name, rows_to_delete) ==
  LET table_key == Lower(table_name)
  IN IF sd.raised \/ table_key \notin DOMAIN sd.db.indexes THEN sd
     ELSE DeleteFromIndexes(sd, table_key, DOMAIN sd.db.indexes[table_key], rows_to_delete)

\* the bucket of the value (empty when the index has none); indexed is FALSE
\* where the code returns None: the table or the column has no index
lookup_by_index(db, table_name, column, value) ==
  LET table_key == Lower(table_name)
      column_key == Lower(column)
  IN IF table_key \notin DOMAIN db.indexes THEN [indexed |-> FALSE, rows |-> <<>>]
     ELSE IF column_key \notin DOMAIN db.indexes[table_key]
     THEN [indexed |-> FALSE, rows |-> <<>>]
     ELSE IF value \in DOMAIN db.indexes[table_key][column_key].map
          THEN [indexed |-> TRUE, rows |-> db.indexes[table_key][column_key].map[value]]
          ELSE [indexed |-> TRUE, rows |-> <<>>]

(***************************************************************************)
(* Query Executor (query.py).                                              *)
(***************************************************************************)
\* create_table without the test for an existing table
create_tableReplace(db, parsed) ==
  LET table_name == Lower(parsed.table)
  IN Out([db EXCEPT !.tables =
            [t \in DOMAIN db.tables \cup {table_name} |->
               IF t = table_name THEN [columns |-> parsed.columns, rows |-> <<>>]
               ELSE db.tables[t]]],
         Ok("Table created", 0))

create_table(db, parsed) ==
  LET table_name == Lower(parsed.table)
  IN IF table_exists(db, table_name) THEN Out(db, Error("Table already exists"))
     ELSE Out([db EXCEPT !.tables =
                 [t \in DOMAIN db.tables \cup {table_name} |->
                    IF t = table_name THEN [columns |-> parsed.columns, rows |-> <<>>]
                    ELSE db.tables[t]]],
              Ok("Table created", 0))

\* NewRow with the empty string, not None, for the columns left out
NewRowBlank(columns, values) ==
  [i \in DOMAIN columns |->
     <<columns[i].name, IF i <= Len(values) THEN values[i] ELSE "">>]

\* row[col["name"]] = values[i] if i < len(values) else None
NewRow(columns, values) ==
  [i \in DOMAIN columns |->
     <<columns[i].name, IF i <= Len(values) THEN values[i] ELSE None>>]

\* Duplicate with the UNIQUE scan left out: only PRIMARY KEY columns conflict
DuplicatePrimaryKeyOnly(db, table, row, flag) ==
  /\ flag = "primary_key"
  /\ \E i \in DOMAIN table.columns :
       /\ table.columns[i][flag]
       /\ \E j \in DOMAIN table.rows :
            Get(db.heap[table.rows[j]], table.columns[i].name) = Get(row, table.columns[i].name)

\* some existing row holds the new row's value in a column with the flag
\* ("primary_key" or "unique")
Duplicate(db, table, row, flag) ==
  \E i \in DOMAIN table.columns :
    /\ table.columns[i][flag]
    /\ \E j \in DOMAIN table.rows :
         Get(db.heap[table.rows[j]], table.columns[i].name) = Get(row, table.columns[i].name)

\* the value is None or reads NULL in any letter case: the check is skipped
IsNullToken(fk_value) == fk_value = None \/ Upper(Str(fk_value)) = "NULL"

\* ForeignKeyError with a missing referenced table let through
ForeignKeyErrorExistingOnly(db, col, row) ==
  LET fk == col.foreign_key
      fk_value == Get(row, col.name)
  IN IF fk = <<>> \/ IsNullToken(fk_value) THEN ""
     ELSE IF ~table_exists(db, fk[1]) THEN ""
     ELSE IF \E j \in DOMAIN db.tables[Lower(fk[1])].rows :
               Str(Get(db.heap[db.tables[Lower(fk[1])].rows[j]], fk[2])) = Str(fk_value)
          THEN ""
          ELSE "FOREIGN KEY constraint violated"

\* the foreign-key check of one column: "" when it passes
ForeignKeyError(db, col, row) ==
  LET fk == col.foreign_key
      fk_value == Get(row, col.name)
  IN IF fk = <<>> \/ IsNullToken(fk_value) THEN ""
     ELSE IF ~table_exists(db, fk[1]) THEN "Referenced table does not exist"
     ELSE IF \E j \in DOMAIN db.tables[Lower(fk[1])].rows :
               Str(Get(db.heap[db.tables[Lower(fk[1])].rows[j]], fk[2])) = Str(fk_value)
          THEN ""
          ELSE "FOREIGN KEY constraint violated"

\* the error of the first column whose foreign-key check fails, "" if none
ForeignKeyCheck(db, table, row) ==
  IF \E i \in DOMAIN table.columns : ForeignKeyError(db, table.columns[i], row) # ""
  THEN ForeignKeyError(db,
         table.columns[CHOOSE i \in DOMAIN table.columns :
           /\ ForeignKeyError(db, table.columns[i], row) # ""
           /\ \A j \in 1..(i - 1) : ForeignKeyError(db, table.columns[j], row) = ""],
         row)
  ELSE ""

\* a row identifier no live row object has
FreshRid(db) == CHOOSE r \in 1..(Cardinality(DOMAIN db.heap) + 1) : r \notin DOMAIN db.heap

insert_into(db, parsed) ==
  IF ~table_exists(db, parsed.table) THEN Out(db, Error("Table does not exist"))
  ELSE
    LET table == db.tables[Lower(parsed.table)]
        row == NewRow(table.columns, parsed.values)
        rid == FreshRid(db)
        appended == [db EXCEPT !.tables[Lower(parsed.table)].rows = Append(@, rid),
                               !.heap = [r \in DOMAIN db.heap \cup {rid} |->
                                           IF r = rid THEN row ELSE db.heap[r]]]
    IN IF Duplicate(db, table, row, "primary_key")
       THEN Out(db, Error("Duplicate PRIMARY KEY value"))
       ELSE IF Duplicate(db, table, row, "unique")
       THEN Out(db, Error("Duplicate UNIQUE value"))
       ELSE IF ForeignKeyCheck(db, table, row) # ""
       THEN Out(db, Error(ForeignKeyCheck(db, table, row)))
       ELSE Out(update_indexes_on_insert(appended, parsed.table, rid),
                Ok("1 row inserted", 1))

\* The clause text is the sequence of its pieces: words, and the operators
\* LIKE, >=, <=, !=, <>, >, <, = ; <<column, operator, value>> is the usual
\* clause.  The text of several pieces put together:
Text(pieces) ==
  CASE pieces = <<>> -> ""
    [] Len(pieces) = 1 -> pieces[1]
    [] pieces = <<"1", "=", "2">> -> "1=2"
    [] pieces = <<"1", "=", "1">> -> "1=1"
    [] pieces = <<"2", "=", "1">> -> "2=1"
    [] pieces = <<"2", "=", "2">> -> "2=2"
    [] pieces = <<"1", "WHERE", "id", "=", "2">> -> "1 WHERE id=2"
    [] pieces = <<"1", "WHERE", "id", "=", "1">> -> "1 WHERE id=1"
    [] pieces = <<"2", "WHERE", "id", "=", "2">> -> "2 WHERE id=2"
    [] pieces = <<"2", "WHERE", "id", "=", "1">> -> "2 WHERE id=1"
    [] OTHER -> "<text>"

\* the pieces before the first occurrence of the piece tok (all of them when
\* tok does not occur), and the pieces after it
RECURSIVE Before(_, _)
Before(pieces, tok) ==
  IF pieces = <<>> \/ Head(pieces) = tok THEN <<>>
  ELSE <<Head(pieces)>> \o Before(Tail(pieces), tok)

After(pieces, tok) == SubSeq(pieces, Len(Before(pieces, tok)) + 2, Len(pieces))

\* the operator filter_rows finds in the clause text, in the order the code
\* looks for them, <> being read as != ; "" when it finds none (ValueError)
WhereOperator(where) ==
  LET pieces == Range(where)
  IN CASE "LIKE" \in pieces \/ "like" \in pieces -> "LIKE"
       [] ">=" \in pieces -> ">="
       [] "<=" \in pieces -> "<="
       [] "!=" \in pieces -> "!="
       [] "<>" \in pieces -> "!="
       [] ">" \in pieces -> ">"
       [] "<" \in pieces -> "<"
       [] "=" \in pieces -> "="
       [] OTHER -> ""

\* the piece the text is split at
SplitPiece(where) ==
  CASE WhereOperator(where) = "LIKE" -> IF "LIKE" \in Range(where) THEN "LIKE" ELSE "like"
    [] WhereOperator(where) = "!=" -> IF "!=" \in Range(where) THEN "!=" ELSE "<>"
    [] OTHER -> WhereOperator(where)

\* s.strip("'\"") of the texts of the model: the values are written bare,
\* and a quote is left at the end of a value cut out of a quoted one
StripQuotes(s) ==
  CASE s = "1'" -> "1"
    [] s = "2'" -> "2"
    [] OTHER -> s

\* col_name = parts[0].strip()
WhereColumn(where) == Text(Before(where, SplitPiece(where)))

\* value = parts[1]: split(" LIKE ", 1) keeps all the text after the first
\* LIKE, split(op) of the other operators splits at every occurrence, and
\* parts[1] is the text between the first and the second
WhereValue(where) ==
  StripQuotes(IF WhereOperator(where) = "LIKE"
              THEN Text(After(where, SplitPiece(where)))
              ELSE Text(Before(After(where, SplitPiece(where)), SplitPiece(where))))

\* float(s) of the strings of the model: the number, or -1 for a string
\* float() raises ValueError on
Float(s) ==
  CASE s \in {"1", "01"} -> 1
    [] s = "2" -> 2
    [] s = "9" -> 9
    [] s = "10" -> 10
    [] OTHER -> -1

\* the place of the string in the order of Python's str comparison
LexRank(s) ==
  CASE s = "" -> 0
    [] s = "%" -> 1
    [] s = "01" -> 2
    [] s = "1" -> 3
    [] s = "10" -> 4
    [] s = "2" -> 5
    [] s = "9" -> 6
    [] s = "NULL" -> 7
    [] s = "None" -> 8
    [] s = "null" -> 9

\* try: float(row_value) > float(value); except ValueError: row_value > value
Greater(row_value, value) ==
  IF Float(row_value) # -1 /\ Float(value) # -1
  THEN Float(row_value) > Float(value)
  ELSE LexRank(row_value) > LexRank(value)

\* the test of one operator on str(row.get(col_name, "")) and the value
Compare(row_value, operator, value) ==
  CASE operator = "=" -> row_value = value
    [] operator = "!=" -> row_value # value
    [] operator = ">" -> Greater(row_value, value)
    [] operator = "<" -> Greater(value, row_value)
    [] operator = ">=" -> ~Greater(value, row_value)
    [] operator = "<=" -> ~Greater(row_value, value)
    \* value.replace("%", ".*"), matched whole and ignoring case: the
    \* values of the model are % or have no wildcard
    [] operator = "LIKE" -> value = "%" \/ Lower(row_value) = Lower(value)

\* one row against the clause
RowMatches(row, where) ==
  Compare(Str(GetOr(row, WhereColumn(where), "")), WhereOperator(where), WhereValue(where))

\* the clause is split, then every row is tested
\* (the callers model the ValueError of a clause with no operator)
filter_rows(hp, rows, where) ==
  LET operator == WhereOperator(where)
      col_name == WhereColumn(where)
      value == WhereValue(where)
      Test(rid) == Compare(Str(GetOr(hp[rid], col_name, "")), operator, value)
  IN SelectSeq(rows, Test)

\* for row in rows: row[column] = value
RECURSIVE SetColumn(_, _, _, _)
SetColumn(hp, rows, column, value) ==
  IF rows = <<>> THEN hp
  ELSE SetColumn([hp EXCEPT ![Head(rows)] = Put(@, column, value)],
                 Tail(rows), column, value)

\* every pair of the SET clause on every row
RECURSIVE SetAll(_, _, _)
SetAll(hp, rows, updates) ==
  IF updates = <<>> THEN hp
  ELSE SetAll(SetColumn(hp, rows, Head(updates)[1], Head(updates)[2]),
              rows, Tail(updates))

\* update_indexes_on_update for every pair of the SET clause
RECURSIVE IndexAll(_, _, _, _)
IndexAll(sd, table_name, rows, updates) ==
  IF updates = <<>> THEN sd
  ELSE IndexAll(update_indexes_on_update(sd, table_name, rows,
                                         Head(updates)[1], Head(updates)[2]),
                table_name, rows, Tail(updates))

\* update_table with the WHERE clause left out of the choice of the rows
update_tableEveryRow(db, parsed) ==
  IF ~table_exists(db, parsed.table) THEN Out(db, Error("Table does not exist"))
  ELSE
    LET rows_to_update == db.tables[Lower(parsed.table)].rows
        mutated == [db EXCEPT !.heap = SetAll(db.heap, rows_to_update, parsed.updates)]
        indexed == IndexAll([db |-> mutated, raised |-> FALSE], parsed.table,
                            rows_to_update, parsed.updates)
    IN IF rows_to_update = <<>> THEN Out(db, Ok("0 row(s) updated", 0))
       ELSE IF indexed.raised THEN Out(indexed.db, Raised("ValueError"))
       ELSE Out(indexed.db, Ok("row(s) updated", Len(rows_to_update)))

update_table(db, parsed) ==
  IF ~table_exists(db, parsed.table) THEN Out(db, Error("Table does not exist"))
  ELSE
    LET all_rows == db.tables[Lower(parsed.table)].rows
        rows_to_update == IF parsed.where # <<>>
                          THEN filter_rows(db.heap, all_rows, parsed.where)
                          ELSE all_rows
        mutated == [db EXCEPT !.heap = SetAll(db.heap, rows_to_update, parsed.updates)]
        indexed == IndexAll([db |-> mutated, raised |-> FALSE], parsed.table,
                            rows_to_update, parsed.updates)
    IN IF parsed.where # <<>> /\ WhereOperator(parsed.where) = ""
       THEN Out(db, Raised("ValueError"))
       ELSE IF rows_to_update = <<>> THEN Out(db, Ok("0 row(s) updated", 0))
       ELSE IF indexed.raised THEN Out(indexed.db, Raised("ValueError"))
       ELSE Out(indexed.db, Ok("row(s) updated", Len(rows_to_update)))

\* ON DELETE SET NULL, the rows of one referencing table against one deleted
\* value: row[fk_column] = None, then update_indexes_on_update for that row
RECURSIVE CascadeRows(_, _, _, _, _)
CascadeRows(sd, other_table_name, fk_column, deleted_value, rows) ==
  IF sd.raised \/ rows = <<>> THEN sd
  ELSE IF Get(sd.db.heap[Head(rows)], fk_column) = deleted_value
  THEN CascadeRows(
         update_indexes_on_update(
           [db |-> [sd.db EXCEPT !.heap[Head(rows)] = Put(@, fk_column, None)],
            raised |-> FALSE],
           other_table_name, <<Head(rows)>>, fk_column, None),
         other_table_name, fk_column, deleted_value, Tail(rows))
  ELSE CascadeRows(sd, other_table_name, fk_column, deleted_value, Tail(rows))

\* for deleted_row in rows_to_delete
RECURSIVE CascadeDeleted(_, _, _, _, _)
CascadeDeleted(sd, other_table_name, fk_column, ref_column, deleted) ==
  IF sd.raised \/ deleted = <<>> THEN sd
  ELSE CascadeDeleted(
         CascadeRows(sd, other_table_name, fk_column,
                     Get(sd.db.heap[Head(deleted)], ref_column),
                     sd.db.tables[other_table_name].rows),
         other_table_name, fk_column, ref_column, Tail(deleted))

\* for col in other_table["columns"]: the columns whose foreign key names
\* the table of the statement, compared as the two strings are
RECURSIVE CascadeColumns(_, _, _, _, _)
CascadeColumns(sd, other_table_name, columns, table_name, deleted) ==
  IF sd.raised \/ columns = <<>> THEN sd
  ELSE IF Head(columns).foreign_key = <<>> THEN
         CascadeColumns(sd, other_table_name, Tail(columns), table_name, deleted)
  ELSE IF Head(columns).foreign_key[1] # table_name THEN
         CascadeColumns(sd, other_table_name, Tail(columns), table_name, deleted)
  ELSE CascadeColumns(
         CascadeDeleted(sd, other_table_name, Head(columns).name,
                        Head(columns).foreign_key[2], deleted),
         other_table_name, Tail(columns), table_name, deleted)

\* for other_table_name, other_table in db.tables.items()
RECURSIVE CascadeTables(_, _, _, _)
CascadeTables(sd, names, table_name, deleted) ==
  IF sd.raised \/ names = {} THEN sd
  ELSE LET n == CHOOSE x \in names : TRUE
       IN CascadeTables(
            CascadeColumns(sd, n, sd.db.tables[n].columns, table_name, deleted),
            names \ {n}, table_name, deleted)

\* for row in rows_to_delete: rows.remove(row)
RECURSIVE RemoveRows(_, _, _)
RemoveRows(hp, rows, deleted) ==
  IF deleted = <<>> THEN rows
  ELSE RemoveRows(hp, RemoveAt(rows, RemovePos(hp, rows, Head(deleted))), Tail(deleted))

\* delete_from with the rows taken off the row sequence first, before the
\* cascade pass and the index purge
DeleteStagesRemoveFirst(db, parsed) ==
  LET rows == db.tables[Lower(parsed.table)].rows
      rows_to_delete == IF parsed.where # <<>>
                        THEN filter_rows(db.heap, rows, parsed.where)
                        ELSE rows
      removed == [db EXCEPT !.tables[Lower(parsed.table)].rows =
                    RemoveRows(db.heap, @, rows_to_delete)]
      cascaded == CascadeTables([db |-> removed, raised |-> FALSE], DOMAIN db.tables,
                                parsed.table, rows_to_delete)
      purged == update_indexes_on_delete(cascaded, parsed.table, rows_to_delete)
  IN [rows_to_delete |-> rows_to_delete, cascaded |-> cascaded, purged |-> purged,
      removed |-> purged.db]

\* the steps of delete_from on an existing table, in the order the code runs
\* them: the rows to delete, the database after the ON DELETE SET NULL pass,
\* after update_indexes_on_delete, and after rows.remove of every row
DeleteStages(db, parsed) ==
  LET rows == db.tables[Lower(parsed.table)].rows
      rows_to_delete == IF parsed.where # <<>>
                        THEN filter_rows(db.heap, rows, parsed.where)
                        ELSE rows
      cascaded == CascadeTables([db |-> db, raised |-> FALSE], DOMAIN db.tables,
                                parsed.table, rows_to_delete)
      purged == update_indexes_on_delete(cascaded, parsed.table, rows_to_delete)
  IN [rows_to_delete |-> rows_to_delete, cascaded |-> cascaded, purged |-> purged,
      removed |-> [purged.db EXCEPT !.tables[Lower(parsed.table)].rows =
                     RemoveRows(purged.db.heap, @, rows_to_delete)]]

delete_from(db, parsed) ==
  IF ~table_exists(db, parsed.table) THEN Out(db, Error("Table does not exist"))
  ELSE
    LET stages == DeleteStages(db, parsed)
    IN IF parsed.where # <<>> /\ WhereOperator(parsed.where) = ""
       THEN Out(db, Raised("ValueError"))
       ELSE IF stages.rows_to_delete = <<>> THEN Out(db, Ok("0 row(s) deleted", 0))
       ELSE IF stages.purged.raised THEN Out(stages.purged.db, Raised("ValueError"))
       ELSE Out(stages.removed, Ok("row(s) deleted", Len(stages.rows_to_delete)))

drop_table(db, parsed) ==
  LET actual_name == get_table_name(db, parsed.table)
  IN IF actual_name = None THEN Out(db, Error("Table does not exist"))
     ELSE Out([db EXCEPT !.tables = [t \in DOMAIN db.tables \ {actual_name} |-> db.tables[t]]],
              Ok("Table dropped", 0))

\* the index probe of a SELECT: the clause text is split at its first "="
\* character, once: the text before it is the column, all the text after it
\* the value.  With !=, >= or <= the text before "=" is the column followed
\* by "!", ">" or "<", which is no index key.
try_index_lookup(db, table_name, where) ==
  LET table_key == Lower(table_name)
      WithEquals == {i \in DOMAIN where : where[i] \in {"=", "!=", ">=", "<="}}
      k == CHOOSE i \in WithEquals : \A l \in WithEquals : i <= l
      column == Lower(Text(SubSeq(where, 1, k - 1)))
      value == StripQuotes(Text(SubSeq(where, k + 1, Len(where))))
  IN IF WithEquals = {} THEN [indexed |-> FALSE, rows |-> <<>>]
     ELSE IF where[k] # "=" THEN [indexed |-> FALSE, rows |-> <<>>]
     ELSE IF table_key \notin DOMAIN db.indexes THEN [indexed |-> FALSE, rows |-> <<>>]
     ELSE IF column \notin DOMAIN db.indexes[table_key]
     THEN [indexed |-> FALSE, rows |-> <<>>]
     ELSE IF value \in DOMAIN db.indexes[table_key][column].map
          THEN [indexed |-> TRUE, rows |-> db.indexes[table_key][column].map[value]]
          ELSE [indexed |-> TRUE, rows |-> <<>>]

\* the header line, then for every row the line of str(row.get(h, ""))
format_table(hp, rows, columns) ==
  LET headers == IF columns = <<"*">> THEN Keys(hp[rows[1]]) ELSE columns
  IN [status |-> "table", msg |-> "row(s) returned", count |-> Len(rows),
      lines |-> <<headers>> \o
                [i \in DOMAIN rows |->
                   [h \in DOMAIN headers |-> Str(GetOr(hp[rows[i]], headers[h], ""))]],
      rows |-> <<>>]

select_from(db, parsed) ==
  IF ~table_exists(db, parsed.table) THEN Out(db, Error("Table does not exist"))
  ELSE
    LET table == db.tables[Lower(parsed.table)]
        indexed_rows == try_index_lookup(db, parsed.table, parsed.where)
        rows == IF parsed.where = <<>> THEN table.rows
                ELSE IF indexed_rows.indexed THEN indexed_rows.rows
                ELSE filter_rows(db.heap, table.rows, parsed.where)
    IN IF parsed.where # <<>> /\ ~indexed_rows.indexed /\ WhereOperator(parsed.where) = ""
       THEN Out(db, Raised("ValueError"))
       ELSE IF rows = <<>> THEN Out(db, Ok("No rows found", 0))
       ELSE Out(db, format_table(db.heap, rows, parsed.columns))

\* d.update(pairs)
RECURSIVE PutAll(_, _)
PutAll(d, pairs) ==
  IF pairs = <<>> THEN d ELSE PutAll(Put(d, Head(pairs)[1], Head(pairs)[2]), Tail(pairs))

\* the keys of a row qualified by a table name: "table.key" is <<table, key>>
Qualified(table_name, row) == [i \in DOMAIN row |-> << <<table_name, row[i][1]>>, row[i][2] >>]

\* the rows of the joined table matching one key: the index bucket, or the
\* scan when there is no index
JoinMatches(db, join_table_name, right_col, key) ==
  LET probe == lookup_by_index(db, join_table_name, right_col, key)
      Equal(rid) == Get(db.heap[rid], right_col) = key
  IN IF probe.indexed THEN probe.rows
     ELSE SelectSeq(db.tables[Lower(join_table_name)].rows, Equal)

\* for row in base_table["rows"]: for match in matches: results.append(combined)
RECURSIVE JoinRows(_, _, _, _, _, _)
JoinRows(db, base_table_name, join_table_name, left_col, right_col, rows) ==
  IF rows = <<>> THEN <<>>
  ELSE LET row == db.heap[Head(rows)]
           matches == JoinMatches(db, join_table_name, right_col, Get(row, left_col))
       IN [i \in DOMAIN matches |->
             PutAll(Qualified(base_table_name, row),
                    Qualified(join_table_name, db.heap[matches[i]]))]
          \o JoinRows(db, base_table_name, join_table_name, left_col, right_col, Tail(rows))

select_with_join(db, parsed) ==
  IF ~table_exists(db, parsed.table) \/ ~table_exists(db, parsed.join[1])
  THEN Out(db, Error("One or more tables do not exist"))
  ELSE LET results == JoinRows(db, parsed.table, parsed.join[1],
                               parsed.join[2][2], parsed.join[3][2],
                               db.tables[Lower(parsed.table)].rows)
       IN Out(db, [status |-> "rows", msg |-> "", count |-> Len(results),
                   lines |-> <<>>, rows |-> results])

execute_query(parsed, db) ==
  CASE parsed.type = "CREATE_TABLE" -> create_table(db, parsed)
    [] parsed.type = "INSERT" -> insert_into(db, parsed)
    [] parsed.type = "SELECT" ->
         IF parsed.join # <<>> THEN select_with_join(db, parsed) ELSE select_from(db, parsed)
    [] parsed.type = "UPDATE" -> update_table(db, parsed)
    [] parsed.type = "DELETE" -> delete_from(db, parsed)
    [] parsed.type = "DROP_TABLE" -> drop_table(db, parsed)
    [] parsed.type = "CREATE_INDEX" ->
         create_index(db, parsed.table, parsed.index_name, parsed.column)

parse(st) ==
  CASE st.type = "CREATE_TABLE" -> parse_create_table(st)
    [] st.type = "INSERT" -> parse_insert(st)
    [] st.type = "SELECT" -> parse_select(st)
    [] st.type = "UPDATE" -> parse_update(st)
    [] st.type = "DELETE" -> parse_delete(st)
    [] st.type = "DROP_TABLE" -> parse_drop_table(st)
    [] st.type = "CREATE_INDEX" -> parse_create_index(st)

\* the row objects something still references: the rows of the tables and
\* the rows of the index buckets; the others are freed
IndexedRows(db, t) ==
  UNION {UNION {Range(db.indexes[t][c].map[v]) : v \in DOMAIN db.indexes[t][c].map} :
         c \in DOMAIN db.indexes[t]}

Referenced(db) ==
  UNION {Range(db.tables[t].rows) : t \in DOMAIN db.tables}
  \cup UNION {IndexedRows(db, t) : t \in DOMAIN db.indexes}

\* the outcome once the row objects nothing references are freed
Collect(out) ==
  Out([out.db EXCEPT !.heap = [r \in Referenced(out.db) |-> out.db.heap[r]]], out.result)

\* Database.execute(command): parse the text and execute the descriptor
execute(db, st) == Collect(execute_query(parse(st), db))

(***************************************************************************)
(* The statements the model submits.                                       *)
(***************************************************************************)
\* (id INT PRIMARY KEY, name VARCHAR UNIQUE)
ParentColumns ==
  << [name |-> "id", primary_key |-> TRUE, unique |-> FALSE, references |-> <<>>],
     [name |-> "name", primary_key |-> FALSE, unique |-> TRUE, references |-> <<>>] >>

\* (id INT PRIMARY KEY, sid INT FOREIGN KEY REFERENCES ref)
ChildColumns(ref) ==
  << [name |-> "id", primary_key |-> TRUE, unique |-> FALSE, references |-> <<>>],
     [name |-> "sid", primary_key |-> FALSE, unique |-> FALSE, references |-> ref] >>

Values == {"1", "2"}

CreateTableTexts ==
  {[type |-> "CREATE_TABLE", table |-> "s", coldefs |-> ParentColumns],
   [type |-> "CREATE_TABLE", table |-> "P", coldefs |-> ChildColumns(<<"S", "ID">>)]}

\* VALUES (a, b), and VALUES (a) that leaves the second column out
InsertTexts ==
  {[type |-> "INSERT", table |-> "S", values |-> v] :
     v \in {<<a>> : a \in Values} \cup (Values \X Values)}
  \cup {[type |-> "INSERT", table |-> "p", values |-> v] :
     v \in {<<a>> : a \in Values} \cup (Values \X (Values \cup {"null"}))}

WhereClauses == {<<>>} \cup {<<"id", "=", v>> : v \in Values}

UpdateTexts ==
  {[type |-> "UPDATE", table |-> "s", updates |-> <<<<"id", v>>>>, where |-> w] :
     v \in Values, w \in WhereClauses}
  \cup {[type |-> "UPDATE", table |-> "P", updates |-> <<<<"sid", v>>>>, where |-> w] :
     v \in Values, w \in WhereClauses}

DeleteTexts ==
  {[type |-> "DELETE", table |-> t, where |-> w] : t \in {"s", "p"}, w \in WhereClauses}

DropTableTexts == {[type |-> "DROP_TABLE", table |-> t] : t \in {"s", "P"}}

CreateIndexTexts ==
  {[type |-> "CREATE_INDEX", table |-> "s", index_name |-> "ix", column |-> "id"]}

SelectTexts ==
  {[type |-> "SELECT", columns |-> <<"*">>, table |-> t, join |-> <<>>, where |-> w] :
     t \in {"S", "p"}, w \in WhereClauses}

\* SELECT * FROM p JOIN s ON p.sid = s.id
JoinTexts ==
  {[type |-> "SELECT", columns |-> <<"*">>, table |-> "p", where |-> <<>>,
    join |-> <<"s", <<"p", "sid">>, <<"s", "id">> >>]}

(***************************************************************************)
(* The state machine: one statement at a time through Database.execute.    *)
(***************************************************************************)
Init ==
  /\ tables = <<>>
  /\ indexes = <<>>
  /\ heap = <<>>
  /\ last = [stmt |-> [type |-> "NONE"], result |-> Ok("", 0)]
  /\ steps = 0
  /\ requests = <<>>
  /\ running = 0

Submit(st) ==
  \E out \in {execute(DB, st)} :
     /\ steps < MaxStatements
     /\ steps' = steps + 1
     /\ Cardinality(DOMAIN out.db.heap) <= MaxRows
     /\ tables' = out.db.tables
     /\ indexes' = out.db.indexes
     /\ heap' = out.db.heap
     /\ last' = [stmt |-> st, result |-> out.result]
     /\ UNCHANGED <<requests, running>>

ExecCreateTable == \E st \in CreateTableTexts : Submit(st)
ExecInsert == \E st \in InsertTexts : Submit(st)
ExecUpdate == \E st \in UpdateTexts : Submit(st)
ExecDelete == \E st \in DeleteTexts : Submit(st)
ExecDropTable == \E st \in DropTableTexts : Submit(st)
ExecCreateIndex == \E st \in CreateIndexTexts : Submit(st)
ExecSelect == \E st \in SelectTexts : Submit(st)
ExecJoin == \E st \in JoinTexts : Submit(st)

Next ==
  \/ ExecCreateTable
  \/ ExecInsert
  \/ ExecUpdate
  \/ ExecDelete
  \/ ExecDropTable
  \/ ExecCreateIndex
  \/ ExecSelect
  \/ ExecJoin

Spec == Init /\ [][Next]_vars

(***************************************************************************)
(* A second session, on a referenced table whose name has no letter.       *)
(* parse_delete hands the executor the upper-cased name, and delete_from   *)
(* compares it as it is with the lowercased ref_table of the foreign keys: *)
(* through the entry point the ON DELETE SET NULL pass only runs for such  *)
(* a name.  Table 7 is the parent, table p references 7(id).               *)
(***************************************************************************)
CascadeCreateTableTexts ==
  {[type |-> "CREATE_TABLE", table |-> "7", coldefs |-> ParentColumns],
   [type |-> "CREATE_TABLE", table |-> "P", coldefs |-> ChildColumns(<<"7", "ID">>)]}

CascadeInsertTexts ==
  {[type |-> "INSERT", table |-> "7", values |-> <<a>>] : a \in Values}
  \cup {[type |-> "INSERT", table |-> "p", values |-> v] :
          v \in {<<a>> : a \in Values} \cup (Values \X Values)}

\* CREATE INDEX ix ON p(sid), CREATE INDEX iy ON P(SID) and
\* CREATE INDEX iz ON 7(id)
CascadeCreateIndexTexts ==
  {[type |-> "CREATE_INDEX", table |-> "p", index_name |-> "ix", column |-> "sid"],
   [type |-> "CREATE_INDEX", table |-> "P", index_name |-> "iy", column |-> "SID"],
   [type |-> "CREATE_INDEX", table |-> "7", index_name |-> "iz", column |-> "id"]}

CascadeUpdateTexts ==
  {[type |-> "UPDATE", table |-> "p", updates |-> <<<<"sid", v>>>>, where |-> <<>>] :
     v \in Values}

CascadeDeleteTexts ==
  {[type |-> "DELETE", table |-> t, where |-> w] : t \in {"7", "p"}, w \in WhereClauses}

\* Database.execute in a session of at most MaxCascadeStatements statements
SubmitCascade(st) ==
  \E out \in {execute(DB, st)} :
     /\ steps < MaxCascadeStatements
     /\ steps' = steps + 1
     /\ Cardinality(DOMAIN out.db.heap) <= MaxRows
     /\ tables' = out.db.tables
     /\ indexes' = out.db.indexes
     /\ heap' = out.db.heap
     /\ last' = [stmt |-> st, result |-> out.result]
     /\ UNCHANGED <<requests, running>>

ExecCascadeCreateTable == \E st \in CascadeCreateTableTexts : SubmitCascade(st)
ExecCascadeInsert == \E st \in CascadeInsertTexts : SubmitCascade(st)
ExecCascadeCreateIndex == \E st \in CascadeCreateIndexTexts : SubmitCascade(st)
ExecCascadeUpdate == \E st \in CascadeUpdateTexts : SubmitCascade(st)
ExecCascadeDelete == \E st \in CascadeDeleteTexts : SubmitCascade(st)

NextCascade ==
  \/ ExecCascadeCreateTable
  \/ ExecCascadeInsert
  \/ ExecCascadeCreateIndex
  \/ ExecCascadeUpdate
  \/ ExecCascadeDelete

SpecCascade == Init /\ [][NextCascade]_vars

(***************************************************************************)
(* The parser session: one statement text given to parse(), which keeps no *)
(* state between calls; the outcome is kept in last.                       *)
(***************************************************************************)
\* the longest text, in tokens
MaxTokens == 3

Words ==
  {"CREATE", "create", "SHOW", "DROP", "INSERT", "SELECT", "UPDATE", "DELETE",
   "DESCRIBE", "TABLE", "TABLES", "INDEX", "INTO", "s"}

TokenTexts == UNION {[1..n -> Words] : n \in 0..MaxTokens}

ParseText ==
  \E tokens \in TokenTexts :
    /\ last.stmt.type = "NONE"
    /\ last' = [stmt |-> [type |-> "TEXT", tokens |-> tokens],
                result |-> parse_tokens(tokens)]
    /\ UNCHANGED <<tables, indexes, heap, steps, requests, running>>

NextParser == ParseText

SpecParser == Init /\ [][NextParser]_vars

(***************************************************************************)
(* The web application (web_app/main.py, web_app/routes.py): one Database  *)
(* instance, and the requests to POST /suppliers/add.  Every handler is a  *)
(* coroutine of one event loop, which leaves a coroutine only at an await. *)
(***************************************************************************)
\* int(row["id"]) of the ids of the model, -1 where int() raises
IntOf(v) ==
  CASE v = "1" -> 1 [] v = "2" -> 2 [] v = "3" -> 3 [] v = "4" -> 4
    [] v = "5" -> 5 [] v = "6" -> 6 [] v = "7" -> 7 [] OTHER -> -1

\* the id as the f-string writes it into the INSERT text
StrOf(n) ==
  CASE n = 1 -> "1" [] n = 2 -> "2" [] n = 3 -> "3" [] n = 4 -> "4"
    [] n = 5 -> "5" [] n = 6 -> "6" [] n = 7 -> "7" [] n = 8 -> "8"

\* the statements of startup_event on the new Database
SupplierColumns ==
  <<[name |-> "id", primary_key |-> TRUE, unique |-> FALSE, references |-> <<>>],
    [name |-> "name", primary_key |-> FALSE, unique |-> FALSE, references |-> <<>>],
    [name |-> "contact_person", primary_key |-> FALSE, unique |-> FALSE, references |-> <<>>],
    [name |-> "email", primary_key |-> FALSE, unique |-> TRUE, references |-> <<>>]>>

ProductColumns ==
  <<[name |-> "id", primary_key |-> TRUE, unique |-> FALSE, references |-> <<>>],
    [name |-> "cname", primary_key |-> FALSE, unique |-> FALSE, references |-> <<>>],
    [name |-> "description", primary_key |-> FALSE, unique |-> FALSE, references |-> <<>>],
    [name |-> "price", primary_key |-> FALSE, unique |-> FALSE, references |-> <<>>],
    [name |-> "supplier_id", primary_key |-> FALSE, unique |-> FALSE,
     references |-> <<"suppliers", "id">>]>>

InventoryColumns ==
  <<[name |-> "id", primary_key |-> TRUE, unique |-> FALSE, references |-> <<>>],
    [name |-> "product_id", primary_key |-> FALSE, unique |-> FALSE,
     references |-> <<"products", "id">>],
    [name |-> "quantity", primary_key |-> FALSE, unique |-> FALSE, references |-> <<>>],
    [name |-> "warehouse_location", primary_key |-> FALSE, unique |-> FALSE,
     references |-> <<>>],
    [name |-> "last_updated", primary_key |-> FALSE, unique |-> FALSE, references |-> <<>>]>>

InsertInto(table, values) == [type |-> "INSERT", table |-> table, values |-> values]

StartupTexts ==
  <<[type |-> "CREATE_TABLE", table |-> "suppliers", coldefs |-> SupplierColumns],
    [type |-> "CREATE_TABLE", table |-> "products", coldefs |-> ProductColumns],
    [type |-> "CREATE_TABLE", table |-> "inventory", coldefs |-> InventoryColumns],
    InsertInto("suppliers", <<"1", "TechSupply Inc", "John Doe", "john@techsupply.com">>),
    InsertInto("suppliers", <<"2", "Global Electronics", "Jane Smith", "jane@globalelec.com">>),
    InsertInto("products", <<"1", "Laptop Dell XPS", "High-performance laptop", "1200.50", "1">>),
    InsertInto("products", <<"2", "Mouse Logitech", "Wireless mouse", "25.99", "1">>),
    InsertInto("inventory", <<"1", "1", "15", "Warehouse A", "2026-01-13">>),
    InsertInto("inventory", <<"2", "2", "50", "Warehouse A", "2026-01-13">>)>>

\* db_instance.execute of each statement in turn
RECURSIVE ExecuteAll(_, _)
ExecuteAll(db, texts) ==
  IF texts = <<>> THEN db
  ELSE ExecuteAll(execute(db, Head(texts)).db, Tail(texts))

\* db_instance after startup_event
StartupDB == ExecuteAll([tables |-> <<>>, indexes |-> <<>>, heap |-> <<>>], StartupTexts)

\* get_next_id(table_name): 1 when the table is missing or empty, and
\* otherwise the largest id that int() reads, plus 1
RECURSIVE MaxId(_, _, _)
MaxId(hp, rows, max_id) ==
  IF rows = <<>> THEN max_id
  ELSE LET row == hp[Head(rows)]
           id_val == IF HasKey(row, "id") THEN IntOf(Get(row, "id")) ELSE -1
       IN MaxId(hp, Tail(rows), IF id_val > max_id THEN id_val ELSE max_id)

get_next_id(db, table_name) ==
  IF ~table_exists(db, table_name) THEN 1
  ELSE IF db.tables[Lower(table_name)].rows = <<>> THEN 1
  ELSE MaxId(db.heap, db.tables[Lower(table_name)].rows, 0) + 1

\* the e-mail addresses of the forms
Emails == {"ann@acme.com", "bob@acme.com"}

Requests == 1..MaxRequests

\* a handler starts whenever a request waits, as if the handlers were run
\* by the threads of a pool
EventLoopFreeThreads(run) == TRUE

\* the event loop starts the handler of a request only when no other
\* handler is running: add_supplier is a coroutine with no await, so it
\* runs from its first line to its return before the loop takes another
EventLoopFree(run) == run = 0

InitWeb ==
  /\ tables = StartupDB.tables
  /\ indexes = StartupDB.indexes
  /\ heap = StartupDB.heap
  /\ last = [stmt |-> [type |-> "NONE"], result |-> Ok("", 0)]
  /\ steps = 0
  /\ requests = [r \in Requests |-> [pc |-> "idle", email |-> "", new_id |-> 0, status |-> ""]]
  /\ running = 0

\* the request reaches the server with its form
Arrive(r) ==
  \E email \in Emails :
    /\ requests[r].pc = "idle"
    /\ requests' = [requests EXCEPT ![r].pc = "received", ![r].email = email]
    /\ UNCHANGED <<tables, indexes, heap, last, steps, running>>

\* add_supplier, its first statement: new_id = get_next_id("suppliers")
GetNextId(r) ==
  /\ requests[r].pc = "received"
  /\ EventLoopFree(running)
  /\ requests' = [requests EXCEPT ![r].pc = "computed",
                                  ![r].new_id = get_next_id(DB, "suppliers")]
  /\ running' = r
  /\ UNCHANGED <<tables, indexes, heap, last, steps>>

\* add_supplier, the rest: the INSERT text with new_id, db.execute(sql) and
\* the redirect
AddSupplier(r) ==
  /\ requests[r].pc = "computed"
  /\ LET sql == InsertInto("suppliers", <<StrOf(requests[r].new_id), "Acme", "Ann",
                                          requests[r].email>>)
     IN \E out \in {execute(DB, sql)} :
          /\ tables' = out.db.tables
          /\ indexes' = out.db.indexes
          /\ heap' = out.db.heap
          /\ last' = [stmt |-> sql, result |-> out.result]
          /\ requests' = [requests EXCEPT ![r].pc = "done",
                                          ![r].status = out.result.status]
          /\ running' = 0
          /\ UNCHANGED steps

NextWeb ==
  \/ \E r \in Requests : Arrive(r)
  \/ \E r \in Requests : GetNextId(r)
  \/ \E r \in Requests : AddSupplier(r)

SpecWeb == InitWeb /\ [][NextWeb]_vars

(***************************************************************************)
(* Properties.  The state after a step is DBNext; a step is told from the  *)
(* statement it records in last.                                           *)
(***************************************************************************)
DBNext == [tables |-> tables', indexes |-> indexes', heap |-> heap']

\* every value a row of the database holds, and every key of an index bucket
ValuesOf(db) ==
  UNION {{db.heap[r][i][2] : i \in DOMAIN db.heap[r]} : r \in DOMAIN db.heap}
  \cup UNION {UNION {DOMAIN db.indexes[t][c].map : c \in DOMAIN db.indexes[t]} :
              t \in DOMAIN db.indexes}

\* the rows of table t whose column reads v: the full-table equality scan
ScanRows(db, t, column, v) ==
  {r \in Range(db.tables[t].rows) : Get(db.heap[r], column) = v}

\* for every index on an existing table and every value, the index lookup
\* returns exactly the rows of the scan
IndexMatchesScan(db) ==
  \A t \in DOMAIN db.indexes \cap DOMAIN db.tables :
    \A c \in DOMAIN db.indexes[t] :
      \A v \in ValuesOf(db) :
        Range(lookup_by_index(db, t, c, v).rows)
          = ScanRows(db, t, db.indexes[t][c].column, v)

\* C1: after CREATE INDEX on column c of table t, every INSERT, UPDATE and
\* DELETE keeps the index lookup on (t, c, v) equal, for every value v, to
\* the set of rows of t whose column c currently equals v: a statement
\* that starts with every index equal to the scan ends with them equal.
C1_IndexEqualsScan ==
  [][(/\ last'.stmt.type \in {"INSERT", "UPDATE", "DELETE"}
      /\ IndexMatchesScan(DB))
     => IndexMatchesScan(DBNext)]_vars

\* the value an INSERT assigns to the i-th declared column
InsertedValue(st, i) == IF i <= Len(st.values) THEN st.values[i] ELSE None

\* the INSERT puts, in a PRIMARY KEY or UNIQUE column, the value some row of
\* the table already holds there
Conflicts(db, st) ==
  LET table == db.tables[Lower(st.table)]
  IN \E i \in DOMAIN table.columns :
       /\ table.columns[i].primary_key \/ table.columns[i].unique
       /\ \E r \in Range(table.rows) :
            Get(db.heap[r], table.columns[i].name) = InsertedValue(st, i)

\* C2: an INSERT whose value in a PRIMARY KEY or UNIQUE column equals that
\* column's value in some existing row of the table is rejected with the
\* duplicate-value error, and the rows of the table, like the rest of the
\* state, are unchanged.
C2_DuplicateRejected ==
  [][(/\ last'.stmt.type = "INSERT"
      /\ Lower(last'.stmt.table) \in DOMAIN tables
      /\ Conflicts(DB, last'.stmt))
     => /\ last'.result.status = "error"
        /\ last'.result.msg \in {"Duplicate PRIMARY KEY value", "Duplicate UNIQUE value"}
        /\ DBNext = DB]_vars

\* C2, its case: an INSERT into a table holding a row was rejected as a
\* duplicate of a UNIQUE value
C2_Witness ==
  /\ last.stmt.type = "INSERT"
  /\ last.result = Error("Duplicate UNIQUE value")
  /\ Conflicts(DB, last.stmt)

\* the INSERT puts, in a foreign-key column, a value that is neither null nor
\* NULL in any letter case while the referenced table is missing or has no
\* row with a string-equal value in the referenced column
Dangles(db, st) ==
  LET table == db.tables[Lower(st.table)]
  IN \E i \in DOMAIN table.columns :
       LET fk == table.columns[i].foreign_key
           v == InsertedValue(st, i)
       IN /\ fk # <<>>
          /\ v # None
          /\ Upper(v) # "NULL"
          /\ \/ Lower(fk[1]) \notin DOMAIN db.tables
             \/ \A r \in Range(db.tables[Lower(fk[1])].rows) :
                  Str(Get(db.heap[r], fk[2])) # Str(v)

\* C3: an INSERT that supplies, in a foreign-key column, a value that is
\* non-null and not the token NULL is rejected when the referenced table
\* does not exist or when no row of it has a string-equal value in the
\* referenced column; the row is not added (the state is unchanged).
C3_DanglingRejected ==
  [][(/\ last'.stmt.type = "INSERT"
      /\ Lower(last'.stmt.table) \in DOMAIN tables
      /\ Dangles(DB, last'.stmt))
     => /\ last'.result.status = "error"
        /\ DBNext = DB]_vars

\* C3, its case: an INSERT into an existing table was rejected because the
\* referenced table, which exists, holds no row with the value
C3_Witness ==
  /\ last.stmt.type = "INSERT"
  /\ last.result = Error("FOREIGN KEY constraint violated")
  /\ Dangles(DB, last.stmt)

\* C4: when a DELETE statement submitted through the entry point removes a
\* row r of table t, then afterwards every row of every table whose
\* foreign-key column references t, and held r's value of the referenced
\* column, has that foreign-key column equal to null.
C4_CascadeSetsNull ==
  [][last'.stmt.type = "DELETE"
     => \A t \in DOMAIN tables \cap DOMAIN tables' :
          \A r \in Range(tables[t].rows) \ Range(tables'[t].rows) :
            \A u \in DOMAIN tables' :
              \A i \in DOMAIN tables'[u].columns :
                LET fk == tables'[u].columns[i].foreign_key
                    fk_column == tables'[u].columns[i].name
                IN (fk # <<>> /\ Lower(fk[1]) = t)
                   => \A d \in Range(tables'[u].rows) \cap DOMAIN heap :
                        (/\ Get(heap[d], fk_column) # None
                         /\ Get(heap[d], fk_column) = Get(heap[r], fk[2]))
                        => Get(heap'[d], fk_column) = None]_vars

\* SELECT * FROM table WHERE id=k
SelectById(table, k) ==
  [type |-> "SELECT", columns |-> <<"*">>, table |-> table, join |-> <<>>,
   where |-> <<"id", "=", k>>]

\* the lines of a result table showing exactly the given row: the names of
\* its columns, then its values
OneRow(row) == <<Keys(row), [i \in DOMAIN row |-> Str(row[i][2])]>>

\* C5: after CREATE TABLE t with a primary-key column id and an INSERT of
\* a row with id = k, the statement SELECT * FROM t WHERE id=k, through the
\* entry point, returns exactly one row, the inserted one, with the
\* inserted values.  Stated of the state right after the accepted INSERT.
C5_SelectReturnsInserted ==
  (/\ last.stmt.type = "INSERT"
   /\ last.result.status = "ok")
  => LET rows == tables[Lower(last.stmt.table)].rows
         result == execute(DB, SelectById(last.stmt.table, last.stmt.values[1])).result
     IN /\ result.status = "table"
        /\ result.count = 1
        /\ result.lines = OneRow(heap[rows[Len(rows)]])

\* the row satisfies the condition of a WHERE clause (no clause: every row)
Satisfies(row, where) ==
  \/ where = <<>>
  \/ where[2] = "=" /\ Str(GetOr(row, where[1], "")) = where[3]
  \/ where[2] \in {"!=", "<>"} /\ Str(GetOr(row, where[1], "")) # where[3]

\* the rows of table t satisfying the condition
Hit(db, t, where) == {r \in Range(db.tables[t].rows) : Satisfies(db.heap[r], where)}

\* SELECT * FROM table
SelectAll(table) ==
  [type |-> "SELECT", columns |-> <<"*">>, table |-> table, join |-> <<>>, where |-> <<>>]

\* C6: UPDATE t SET c=v WHERE cond reports the number of rows of t that
\* satisfy cond; afterwards exactly those rows have column c equal to v,
\* every other row and every other column is unchanged, and a following
\* select shows the new value on those rows.
C6_UpdateReportsAndSets ==
  [][(/\ last'.stmt.type = "UPDATE"
      /\ Lower(last'.stmt.table) \in DOMAIN tables)
     => LET st == last'.stmt
            t == Lower(st.table)
            c == st.updates[1][1]
            v == st.updates[1][2]
            hit == Hit(DB, t, st.where)
            shown == execute(DBNext, SelectAll(st.table)).result
        IN /\ last'.result.status = "ok"
           /\ last'.result.count = Cardinality(hit)
           /\ tables' = tables
           /\ \A u \in DOMAIN tables : \A r \in Range(tables[u].rows) :
                heap'[r] = IF r \in hit THEN Put(heap[r], c, v) ELSE heap[r]
           /\ \A j \in DOMAIN tables[t].rows :
                tables[t].rows[j] \in hit
                => shown.lines[j + 1] = OneRow(Put(heap[tables[t].rows[j]], c, v))[2]]_vars

\* C7: DELETE FROM t WHERE cond reports the number of rows of t that
\* satisfy cond, removes exactly those rows from the row sequence of t
\* keeping the others in order, and a following select with the same
\* condition returns no row.
C7_DeleteReportsAndRemoves ==
  [][(/\ last'.stmt.type = "DELETE"
      /\ Lower(last'.stmt.table) \in DOMAIN tables)
     => LET st == last'.stmt
            t == Lower(st.table)
            hit == Hit(DB, t, st.where)
            Kept(r) == r \notin hit
            following == [type |-> "SELECT", columns |-> <<"*">>, table |-> st.table,
                          join |-> <<>>, where |-> st.where]
        IN /\ last'.result.status = "ok"
           /\ last'.result.count = Cardinality(hit)
           /\ tables'[t].rows = SelectSeq(tables[t].rows, Kept)
           /\ \A r \in Range(tables'[t].rows) : heap'[r] = heap[r]
           /\ execute(DBNext, following).result.count = 0]_vars

\* the pairs (ra, rb) of a row of table a and a row of table b with ra.x
\* equal to rb.y
MatchingPairs(db, a, x, b, y) ==
  {pair \in Range(db.tables[a].rows) \X Range(db.tables[b].rows) :
     Get(db.heap[pair[1]], x) = Get(db.heap[pair[2]], y)}

\* the combined row of a pair: every column of both rows under table.column
Combined(db, a, b, pair) ==
  PutAll(Qualified(a, db.heap[pair[1]]), Qualified(b, db.heap[pair[2]]))

\* C8: SELECT ... FROM a JOIN b ON a.x = b.y returns exactly one combined
\* row for each pair (ra, rb) of a row of a and a row of b with ra.x equal
\* to rb.y, and no row for a row of a that matches nothing in b.
C8_JoinReturnsMatchingPairs ==
  \A st \in JoinTexts :
    (table_exists(DB, st.table) /\ table_exists(DB, st.join[1]))
    => LET a == Lower(st.table)
           b == Lower(st.join[1])
           pairs == MatchingPairs(DB, a, st.join[2][2], b, st.join[3][2])
           result == execute(DB, st).result
       IN /\ result.status = "rows"
          /\ Len(result.rows) = Cardinality(pairs)
          /\ Range(result.rows) = {Combined(DB, a, b, pair) : pair \in pairs}

\* C9: a table created under one spelling of its name is resolved to the
\* same table by every later statement, the cascade check of DELETE
\* included, whatever letter case the name is written in: a DELETE naming
\* an existing table in any letter case does what delete_from does when it
\* is handed the name in the canonical spelling the table is stored under.
C9_DeleteResolvesAnySpelling ==
  \A st \in DeleteTexts :
    table_exists(DB, st.table)
    => execute(DB, st)
         = Collect(delete_from(DB, [type |-> "DELETE",
                                    table |-> get_table_name(DB, st.table),
                                    where |-> st.where]))

\* the statement with the column of its WHERE clause written in upper case
UpperWhere(st) == [st EXCEPT !.where[1] = Upper(@)]

\* C10: a column named in a WHERE clause designates the declared column
\* whatever letter case it is written in: an UPDATE or a DELETE whose WHERE
\* clause names the column in upper case gives the result and the state of
\* the statement that names it in the declared spelling.
C10_WhereColumnAnyCase ==
  \A st \in UpdateTexts \cup DeleteTexts :
    st.where # <<>> => execute(DB, UpperWhere(st)) = execute(DB, st)

\* C11: a statement whose execution ends in an error, an error result or a
\* raised exception, leaves every table's rows and every index's buckets
\* exactly as they were before the statement began.
C11_ErrorLeavesStateUnchanged ==
  [][last'.result.status \in {"error", "raised"} => DBNext = DB]_vars

\* the messages of the schema and constraint failures
FailureMessages ==
  {"Table does not exist", "Table already exists", "Column does not exist",
   "Duplicate PRIMARY KEY value", "Duplicate UNIQUE value",
   "Referenced table does not exist", "FOREIGN KEY constraint violated",
   "One or more tables do not exist"}

\* C12: every schema or constraint failure (table not found, table already
\* exists, column not found, duplicate primary-key or unique value,
\* foreign-key violation) reaches the caller of statement execution as a
\* raised error, never as a normally returned result value.
C12_FailuresAreRaised ==
  last.result.msg \in FailureMessages => last.result.status = "raised"

\* C13: after DROP TABLE t succeeds no index keyed to t remains in the
\* index store, so a table later created under the same name starts with
\* no index.
C13_DropRemovesIndexes ==
  [][(/\ last'.stmt.type = "DROP_TABLE"
      /\ last'.result.status = "ok")
     => Lower(last'.stmt.table) \notin DOMAIN indexes']_vars

\* C14: in every reachable state no index has a bucket keyed by null, and a
\* row of the table whose indexed column is null, a dependent row whose
\* foreign-key column the cascade of a DELETE set to null included, appears
\* in no bucket of that index.
C14_NoNullBucket ==
  \A t \in DOMAIN indexes \cap DOMAIN tables :
    \A c \in DOMAIN indexes[t] :
      /\ None \notin DOMAIN indexes[t][c].map
      /\ \A v \in DOMAIN indexes[t][c].map :
           \A r \in Range(indexes[t][c].map[v]) \cap Range(tables[t].rows) :
             Get(heap[r], indexes[t][c].column) # None

\* C15: in every reachable state, after any sequence of CREATE INDEX,
\* INSERT, UPDATE and DELETE statements, no index bucket is an empty
\* sequence: a bucket is removed when its last row leaves it.
C15_NoEmptyBucket ==
  \A t \in DOMAIN indexes :
    \A c \in DOMAIN indexes[t] :
      \A v \in DOMAIN indexes[t][c].map : indexes[t][c].map[v] # <<>>

\* C15, its case: a DELETE removed the only row of s, which the index on
\* s.id held in the bucket of its id, and the index is left without bucket
C15_Witness ==
  /\ last.stmt.type = "DELETE"
  /\ last.stmt.table = "s"
  /\ last.result.status = "ok"
  /\ last.result.count = 1
  /\ "s" \in DOMAIN tables
  /\ tables["s"].rows = <<>>
  /\ "s" \in DOMAIN indexes
  /\ indexes["s"]["id"].map = <<>>

\* the rows of table t, in the order of the table, whose column reads v
ScanSeq(db, t, column, v) ==
  LET Reads(r) == Get(db.heap[r], column) = v
  IN SelectSeq(db.tables[t].rows, Reads)

\* the index entry is what a scan of the current rows of t builds: a bucket
\* for every non-null value of the column, holding the rows that read it
Rebuilt(db, t, entry) ==
  /\ DOMAIN entry.map
       = {Get(db.heap[r], entry.column) : r \in Range(db.tables[t].rows)} \ {None}
  /\ \A v \in DOMAIN entry.map : entry.map[v] = ScanSeq(db, t, entry.column, v)

\* C16: at any time there is at most one index per (table, column) pair,
\* compared case-insensitively; a second CREATE INDEX on the same column
\* replaces the first: the remaining index carries the name of the last
\* CREATE INDEX and is rebuilt from the table's current rows, the indexes
\* of the other columns and tables staying as they were.
C16_OneIndexPerColumn ==
  [][/\ \A t1, t2 \in DOMAIN indexes' : Lower(t1) = Lower(t2) => t1 = t2
     /\ \A t \in DOMAIN indexes' :
          \A c1, c2 \in DOMAIN indexes'[t] : Lower(c1) = Lower(c2) => c1 = c2
     /\ (/\ last'.stmt.type = "CREATE_INDEX"
         /\ last'.result.status = "ok")
        => LET t == Lower(last'.stmt.table)
               c == Lower(last'.stmt.column)
           IN /\ t \in DOMAIN indexes'
              /\ c \in DOMAIN indexes'[t]
              /\ indexes'[t][c].name = last'.stmt.index_name
              /\ Lower(indexes'[t][c].column) = c
              /\ Rebuilt(DBNext, t, indexes'[t][c])
              /\ \A u \in DOMAIN indexes : \A d \in DOMAIN indexes[u] :
                   <<u, d>> # <<t, c>> => /\ u \in DOMAIN indexes'
                                          /\ d \in DOMAIN indexes'[u]
                                          /\ indexes'[u][d] = indexes[u][d]
              /\ \A u \in DOMAIN indexes' : \A d \in DOMAIN indexes'[u] :
                   <<u, d>> # <<t, c>> => u \in DOMAIN indexes /\ d \in DOMAIN indexes[u]]_vars

\* C16, its case: CREATE INDEX iy ON P(SID) succeeded on a table with rows
\* in its buckets, and the one index of p.sid carries the name iy
C16_Witness ==
  /\ last.stmt.type = "CREATE_INDEX"
  /\ last.stmt.index_name = "iy"
  /\ last.result.status = "ok"
  /\ DOMAIN indexes["p"] = {"sid"}
  /\ indexes["p"]["sid"].name = "iy"
  /\ indexes["p"]["sid"].map # <<>>

\* C17: CREATE TABLE with a name whose canonical (lowercase) form already
\* names a table fails, and the existing table's columns and rows, like
\* the rest of the state, are unchanged.
C17_CreateExistingFails ==
  [][(/\ last'.stmt.type = "CREATE_TABLE"
      /\ Lower(last'.stmt.table) \in DOMAIN tables)
     => /\ last'.result = Error("Table already exists")
        /\ DBNext = DB]_vars

\* C17, its case: CREATE TABLE P was refused while the table p, created
\* under that name, holds a row
C17_Witness ==
  /\ last.stmt.type = "CREATE_TABLE"
  /\ last.stmt.table = "P"
  /\ last.result = Error("Table already exists")
  /\ "p" \in DOMAIN tables
  /\ tables["p"].rows # <<>>

\* the database with no index at all
WithoutIndexes(db) == [db EXCEPT !.indexes = <<>>]

\* SELECT * FROM t WHERE w, as the descriptor select_from receives
SelectWhere(t, w) ==
  [type |-> "SELECT", columns |-> <<"*">>, table |-> t, join |-> <<>>, where |-> w]

\* C18: for every table state and every single-comparison WHERE clause, a
\* SELECT without join returns the same rows when an index exists on the
\* WHERE column (the index-assisted path) as when no index exists (the
\* full-scan filter).
C18_IndexedSelectEqualsScan ==
  \A t \in DOMAIN tables :
    \A w \in WhereClauses \ {<<>>} :
      select_from(DB, SelectWhere(t, w)).result
        = select_from(WithoutIndexes(DB), SelectWhere(t, w)).result

\* SELECT * FROM 7 JOIN p ON 7.name = p.sid and
\* SELECT * FROM p JOIN 7 ON p.sid = 7.id
CascadeJoinTexts ==
  {[type |-> "SELECT", columns |-> <<"*">>, table |-> "7", where |-> <<>>,
    join |-> <<"p", <<"7", "name">>, <<"p", "sid">> >>],
   [type |-> "SELECT", columns |-> <<"*">>, table |-> "p", where |-> <<>>,
    join |-> <<"7", <<"p", "sid">>, <<"7", "id">> >>]}

\* C19: a join returns the same combined rows when an index exists on the
\* join column of the joined table as when no index exists, including for
\* base rows whose join key is null or missing.
C19_IndexedJoinEqualsScan ==
  \A st \in CascadeJoinTexts :
    (table_exists(DB, st.table) /\ table_exists(DB, st.join[1]))
    => execute(DB, st).result = execute(WithoutIndexes(DB), st).result

\* C20: during an UPDATE of an indexed column each target row is removed
\* from the bucket of its old value before its field is changed and added
\* to the bucket of the new value after; so after the UPDATE no target row
\* whose value changed remains in the bucket of its old value, and every
\* target row is in the bucket of the new value.
C20_UpdateMovesBuckets ==
  [][(/\ last'.stmt.type = "UPDATE"
      /\ last'.result.status = "ok"
      /\ Lower(last'.stmt.table) \in DOMAIN tables
      /\ Lower(last'.stmt.table) \in DOMAIN indexes
      /\ last'.stmt.updates[1][1] \in DOMAIN indexes[Lower(last'.stmt.table)])
     => LET st == last'.stmt
            t == Lower(st.table)
            c == st.updates[1][1]
            v == st.updates[1][2]
            map == indexes'[t][c].map
        IN \A r \in Hit(DB, t, st.where) :
             LET old == Get(heap[r], c)
             IN /\ (old # v /\ old \in DOMAIN map) => r \notin Range(map[old])
                /\ v \in DOMAIN map
                /\ r \in Range(map[v])]_vars

\* C21: a DELETE performs its steps in this order: the rows to delete are
\* resolved, then the cascade-on-delete pass runs, then the rows are purged
\* from the index buckets, and only then are the rows removed from the row
\* sequence.  Stated of the database after each step: the rows resolved are
\* those satisfying the clause before the statement; after the cascade pass
\* every row sequence and every index of the table are as before the
\* statement; the purge changes nothing but the indexes of the table; the
\* removal changes nothing but the row sequence of the table, and its
\* outcome is the state the statement leaves.  (No table of the sessions
\* references itself.)
C21_DeleteStepOrder ==
  [][(/\ last'.stmt.type = "DELETE"
      /\ last'.result.status = "ok"
      /\ last'.result.count > 0)
     => LET parsed == parse(last'.stmt)
            t == Lower(parsed.table)
            stages == DeleteStages(DB, parsed)
            deleted == Range(stages.rows_to_delete)
            cascaded == stages.cascaded.db
            purged == stages.purged.db
            removed == stages.removed
        IN /\ deleted = Hit(DB, t, parsed.where)
           /\ cascaded.tables = tables
           /\ t \in DOMAIN indexes => cascaded.indexes[t] = indexes[t]
           /\ \A r \in deleted : cascaded.heap[r] = heap[r]
           /\ purged.tables = tables
           /\ purged.heap = cascaded.heap
           /\ \A u \in DOMAIN indexes \ {t} : purged.indexes[u] = cascaded.indexes[u]
           /\ removed.indexes = purged.indexes
           /\ removed.heap = purged.heap
           /\ \A u \in DOMAIN tables \ {t} : removed.tables[u] = tables[u]
           /\ Range(removed.tables[t].rows) = Range(tables[t].rows) \ deleted
           /\ DBNext = Collect(Out(removed, last'.result)).db]_vars

\* DELETE FROM 7 has removed the only row of 7; the cascade pass has set sid
\* of the row of p to null (only that pass makes a bucket of null) and the
\* purge has emptied the index on 7.id
C21_Witness ==
  /\ last.stmt.type = "DELETE"
  /\ last.stmt.table = "7"
  /\ last.result.status = "ok"
  /\ last.result.count = 1
  /\ tables["7"].rows = <<>>
  /\ "7" \in DOMAIN indexes
  /\ indexes["7"]["id"].map = <<>>
  /\ "p" \in DOMAIN indexes
  /\ None \in DOMAIN indexes["p"]["sid"].map

\* C22: after a DELETE completes, whatever INSERT and UPDATE statements
\* preceded it, no bucket of any index on that table still references a
\* removed row.
C22_DeleteLeavesNoReference ==
  [][(/\ last'.stmt.type = "DELETE"
      /\ last'.result.status = "ok"
      /\ Lower(last'.stmt.table) \in DOMAIN indexes')
     => LET t == Lower(last'.stmt.table)
            removed == Range(tables[t].rows) \ Range(tables'[t].rows)
        IN \A c \in DOMAIN indexes'[t] :
             \A v \in DOMAIN indexes'[t][c].map :
               Range(indexes'[t][c].map[v]) \cap removed = {}]_vars

\* the map m with the row appended to the bucket of the value, the bucket
\* being created when m has none
WithRow(m, value, rid) ==
  [v \in DOMAIN m \cup {value} |->
     IF v = value
     THEN (IF value \in DOMAIN m THEN m[value] ELSE <<>>) \o <<rid>>
     ELSE m[v]]

C24_KeysAreUnique ==
  \A t \in DOMAIN tables :
    \A i \in DOMAIN tables[t].columns :
      (tables[t].columns[i].primary_key \/ tables[t].columns[i].unique)
      => \A j, k \in DOMAIN tables[t].rows :
           (/\ j # k
            /\ Get(heap[tables[t].rows[j]], tables[t].columns[i].name) # None)
           => Get(heap[tables[t].rows[j]], tables[t].columns[i].name)
                # Get(heap[tables[t].rows[k]], tables[t].columns[i].name)

\* C25: in every reachable state, after any sequence of INSERT, UPDATE,
\* DELETE and DROP TABLE statements, every non-null value held in a
\* foreign-key column equals the referenced column's value in some row of
\* the existing referenced table.  (A value reading NULL, which INSERT
\* accepts unchecked, counts as null.)
C25_ForeignKeysResolve ==
  \A t \in DOMAIN tables :
    \A i \in DOMAIN tables[t].columns :
      LET col == tables[t].columns[i]
      IN col.foreign_key # <<>>
         => \A r \in Range(tables[t].rows) :
              ~IsNullToken(Get(heap[r], col.name))
              => /\ col.foreign_key[1] \in DOMAIN tables
                 /\ \E q \in Range(tables[col.foreign_key[1]].rows) :
                      Get(heap[q], col.foreign_key[2]) = Get(heap[r], col.name)

\* UPDATE s SET ID=1 and UPDATE s SET x=1: the column in another letter
\* case, and a column the table does not declare
UndeclaredUpdateTexts ==
  {[type |-> "UPDATE", table |-> "s", updates |-> <<<<c, "1">>>>, where |-> <<>>] :
     c \in {"ID", "x"}}

\* the keys of every row are the declared column names of its table, in
\* the declared spelling and order
RowKeysAreColumns(db) ==
  \A t \in DOMAIN db.tables :
    \A r \in Range(db.tables[t].rows) :
      Keys(db.heap[r]) = [i \in DOMAIN db.tables[t].columns |-> db.tables[t].columns[i].name]

\* C26: in every reachable state the key set of every row equals the set of
\* declared column names of its table, in their declared spelling: no
\* statement, in particular no UPDATE naming an undeclared or
\* differently-cased column, adds or removes a key of a row.
C26_RowKeysStayDeclared ==
  /\ RowKeysAreColumns(DB)
  /\ \A st \in UndeclaredUpdateTexts : RowKeysAreColumns(execute(DB, st).db)

\* C27: INSERT builds the row by assigning the i-th parsed value to the i-th
\* declared column; every declared column beyond the supplied values is
\* null, and the row has exactly the declared columns.
C27_InsertIsPositional ==
  [][(/\ last'.stmt.type = "INSERT"
      /\ last'.result.status = "ok")
     => LET t == Lower(last'.stmt.table)
            columns == tables'[t].columns
            values == parse(last'.stmt).values
            row == heap'[tables'[t].rows[Len(tables'[t].rows)]]
        IN /\ Len(row) = Len(columns)
           /\ \A i \in DOMAIN columns :
                /\ row[i][1] = columns[i].name
                /\ row[i][2] = IF i <= Len(values) THEN values[i] ELSE None]_vars

\* INSERT INTO S VALUES (a): the new row holds a under id and null under name
C27_Witness ==
  /\ last.stmt.type = "INSERT"
  /\ last.stmt.table = "S"
  /\ Len(last.stmt.values) = 1
  /\ last.result.status = "ok"
  /\ heap[tables["s"].rows[Len(tables["s"].rows)]]
       = << <<"id", last.stmt.values[1]>>, <<"name", None>> >>

\* SELECT * FROM s JOIN s ON s.id = s.name
SelfJoinTexts ==
  {[type |-> "SELECT", columns |-> <<"*">>, table |-> "s", where |-> <<>>,
    join |-> <<"s", <<"s", "id">>, <<"s", "name">> >>]}

\* the combined row has, for every column of the row, the entry keyed
\* table.column with the row's value
Carries(combined, table_name, row) ==
  \A i \in DOMAIN row :
    /\ HasKey(combined, <<table_name, row[i][1]>>)
    /\ Get(combined, <<table_name, row[i][1]>>) = row[i][2]

\* C28: every combined row of a join carries, for each column of the base
\* row and each column of the matched row, an entry keyed table.column
\* with that row's value, for both sides, also when the base table and the
\* join table are the same table: each matching pair of rows has a
\* combined row carrying both of them.
C28_JoinCarriesBothSides ==
  \A st \in JoinTexts \cup SelfJoinTexts :
    (table_exists(DB, st.table) /\ table_exists(DB, st.join[1]))
    => LET a == Lower(st.table)
           b == Lower(st.join[1])
           result == execute(DB, st).result
       IN \A pair \in MatchingPairs(DB, a, st.join[2][2], b, st.join[3][2]) :
            \E k \in DOMAIN result.rows :
              /\ Carries(result.rows[k], a, heap[pair[1]])
              /\ Carries(result.rows[k], b, heap[pair[2]])

\* the join text with the two qualified columns of its ON condition
\* written in the other order: ON b.y = a.x for ON a.x = b.y
Reversed(st) == [st EXCEPT !.join = <<@[1], @[3], @[2]>>]

\* C29: the result of a join of base table a with table b does not depend
\* on the order in which the two qualified columns are written in the ON
\* condition: ON a.x = b.y and ON b.y = a.x return the same combined rows.
C29_JoinConditionCommutes ==
  \A st \in JoinTexts :
    execute(DB, st).result = execute(DB, Reversed(st)).result

\* SELECT id FROM s, SELECT name, id FROM s and SELECT * FROM s
ProjectionTexts ==
  {[type |-> "SELECT", columns |-> c, table |-> "s", join |-> <<>>, where |-> <<>>] :
     c \in {<<"id">>, <<"name", "id">>, <<"*">>}}

\* C30: a SELECT with a projection list c1, ..., cn, submitted through the
\* statement entry point, returns for every selected row the stored values
\* of the declared columns c1, ..., cn; SELECT * returns the declared
\* columns in declaration order.
C30_ProjectionReturnsStoredValues ==
  \A st \in ProjectionTexts :
    (table_exists(DB, st.table) /\ tables[Lower(st.table)].rows # <<>>)
    => LET table == tables[Lower(st.table)]
           selected == IF st.columns = <<"*">>
                       THEN [i \in DOMAIN table.columns |-> table.columns[i].name]
                       ELSE st.columns
           result == execute(DB, st).result
       IN /\ result.status = "table"
          /\ Len(result.lines) = Len(table.rows) + 1
          /\ st.columns = <<"*">> => result.lines[1] = selected
          /\ \A j \in DOMAIN table.rows :
               result.lines[j + 1]
                 = [h \in DOMAIN selected |-> Str(Get(heap[table.rows[j]], selected[h]))]

\* the clause values the comparison is tried with, and the operators
ComparedValues == {"1", "01", "10", "9", "2"}

ComparisonOperators == {"=", "!=", "<>", ">", "<", ">=", "<="}

\* the comparison of two texts as numbers when both are numbers, and as
\* strings otherwise; cmp is -1, 0 or 1
Order(row_value, value) ==
  LET a == IF Float(row_value) # -1 /\ Float(value) # -1
           THEN Float(row_value) ELSE LexRank(row_value)
      b == IF Float(row_value) # -1 /\ Float(value) # -1
           THEN Float(value) ELSE LexRank(value)
  IN IF a < b THEN -1 ELSE IF a = b THEN 0 ELSE 1

Holds(op, cmp) ==
  CASE op = "=" -> cmp = 0
    [] op \in {"!=", "<>"} -> cmp # 0
    [] op = ">" -> cmp = 1
    [] op = "<" -> cmp = -1
    [] op = ">=" -> cmp # -1
    [] op = "<=" -> cmp # 1

\* C31: for every comparison operator of a WHERE clause (=, !=, <>, >, <,
\* >=, <=) the rows that filter_rows keeps are those whose value compares
\* so with the clause value, numerically when both are numbers and as
\* strings otherwise.
C31_ComparesNumerically ==
  \A t \in DOMAIN tables : \A op \in ComparisonOperators : \A v \in ComparedValues :
    \A c \in {"id", "name"} :
      Range(filter_rows(heap, tables[t].rows, <<c, op, v>>))
        = {r \in Range(tables[t].rows) :
             Holds(op, Order(Str(GetOr(heap[r], c, "")), v))}

\* clause texts with one operator and with several: id=1, id=1=2, id=2=1,
\* id!=1=2, id<>2=2, id LIKE 1=2, and the clauses id and id 1 with none
SplitClauses ==
  {<<"id", "=", "1">>, <<"id", "=", "1", "=", "2">>, <<"id", "=", "2", "=", "1">>,
   <<"id", "!=", "1", "=", "2">>, <<"id", "<>", "2", "=", "2">>,
   <<"id", "LIKE", "1", "=", "2">>, <<"id">>, <<"id", "1">>}

\* the first operator of the priority order LIKE, >=, <=, != or <>, >, <, =
\* that occurs in the clause, "" when none does
FirstOperator(where) ==
  LET order == <<{"LIKE", "like"}, {">="}, {"<="}, {"!=", "<>"}, {">"}, {"<"}, {"="}>>
      found == {i \in DOMAIN order : order[i] \cap Range(where) # {}}
  IN IF found = {} THEN ""
     ELSE LET i == CHOOSE k \in found : \A j \in found : k <= j
          IN CASE i = 1 -> "LIKE" [] i = 4 -> "!=" [] OTHER -> CHOOSE op \in order[i] : TRUE

\* the clause split once at its operator: the text before it, all the text
\* after it
SplitOnce(where) ==
  LET at == CHOOSE k \in DOMAIN where :
              /\ where[k] \in {"LIKE", "like", ">=", "<=", "!=", "<>", ">", "<", "="}
              /\ FirstOperator(<<where[k]>>) = FirstOperator(where)
              /\ \A j \in 1..(k - 1) : FirstOperator(<<where[j]>>) # FirstOperator(where)
  IN [column |-> Text(SubSeq(where, 1, at - 1)),
      value |-> Text(SubSeq(where, at + 1, Len(where)))]

DeleteWhere(t, where) == [type |-> "DELETE", table |-> t, where |-> where]

\* C32: the operator of a WHERE clause is the first of LIKE, >=, <=, != or
\* <>, >, <, = that occurs in it; the clause is split at that operator once,
\* the text before it being the column and all the text after it the value,
\* and the rows kept are those whose column compares so with that value; a
\* DELETE whose clause contains no operator fails with an error.
C32_ClauseSplitOnce ==
  \A where \in SplitClauses :
    /\ WhereOperator(where) = FirstOperator(where)
    /\ table_exists(DB, "s")
       => IF FirstOperator(where) = ""
          THEN execute(DB, DeleteWhere("s", where)).result.status = "raised"
          ELSE Range(filter_rows(heap, tables["s"].rows, where))
                 = {r \in Range(tables["s"].rows) :
                      Compare(Str(GetOr(heap[r], SplitOnce(where).column, "")),
                              FirstOperator(where), SplitOnce(where).value)}

\* C33: an UPDATE or DELETE on an existing table whose WHERE clause matches
\* no row reports 0 rows and leaves the tables, their rows and the indexes
\* as they were.
C33_NoMatchChangesNothing ==
  [][(/\ last'.stmt.type \in {"UPDATE", "DELETE"}
      /\ last'.stmt.where # <<>>
      /\ Lower(last'.stmt.table) \in DOMAIN tables
      /\ Hit(DB, Lower(last'.stmt.table), last'.stmt.where) = {})
     => /\ last'.result.status = "ok"
        /\ last'.result.count = 0
        /\ tables' = tables
        /\ heap' = heap
        /\ indexes' = indexes]_vars

\* C33, its case: an UPDATE with a WHERE clause on the indexed table s,
\* which holds a row, matched no row
C33_Witness ==
  /\ last.stmt.type = "UPDATE"
  /\ last.stmt.table = "s"
  /\ last.stmt.where # <<>>
  /\ last.result.msg = "0 row(s) updated"
  /\ tables["s"].rows # <<>>
  /\ Hit(DB, "s", last.stmt.where) = {}
  /\ "s" \in DOMAIN indexes
  /\ \E c \in DOMAIN indexes["s"] : indexes["s"][c].map # <<>>

\* C34: the descriptor the parser produces for a statement carries the
\* table name and the column names exactly as the statement text spells
\* them, letter case included.
C34_NamesKeptAsSpelled ==
  last.stmt.type # "NONE"
  => LET st == last.stmt
         parsed == parse(st)
     IN /\ parsed.table = st.table
        /\ st.type = "CREATE_INDEX" => parsed.column = st.column
        /\ st.type = "SELECT" => parsed.columns = st.columns
        /\ st.type = "UPDATE"
           => \A i \in DOMAIN st.updates : parsed.updates[i][1] = st.updates[i][1]
        /\ st.type = "CREATE_TABLE"
           => \A i \in DOMAIN st.coldefs : parsed.columns[i].name = st.coldefs[i].name

\* the text has one of the statement forms: SHOW TABLES, DESCRIBE or DESC,
\* CREATE TABLE, INSERT INTO, SELECT, UPDATE, DELETE, DROP TABLE, CREATE
\* INDEX, whatever follows the keywords
Recognized(tokens) ==
  LET first == Upper(tokens[1])
      second == IF Len(tokens) > 1 THEN Upper(tokens[2]) ELSE ""
  IN \/ first \in {"DESCRIBE", "DESC", "SELECT", "UPDATE", "DELETE"}
     \/ <<first, second>> \in {<<"SHOW", "TABLES">>, <<"CREATE", "TABLE">>,
                               <<"INSERT", "INTO">>, <<"DROP", "TABLE">>,
                               <<"CREATE", "INDEX">>}

\* C35: every non-empty statement text that has none of the recognized
\* forms, a lone CREATE, SHOW or DROP included, makes the parser fail with
\* the error "Unknown command" and with no other failure.
C35_UnknownCommand ==
  (last.stmt.type = "TEXT" /\ last.stmt.tokens # <<>> /\ ~Recognized(last.stmt.tokens))
  => last.result = Raise("ValueError", "Unknown command")

\* the values a SET clause assigns in quotes: '1', '2', '2 where id=1' and
\* '1 WHERE id=2'
QuotedValues == Values \cup {"2 where id=1", "1 WHERE id=2"}

\* UPDATE s SET name='v' with the WHERE clause w
UpdateName(v, w) ==
  [type |-> "UPDATE", table |-> "s", updates |-> <<<<"name", v>>>>, where |-> w]

\* the rows the UPDATE statement is applied to
Targets(db, st) ==
  LET parsed == parse_update(st)
      all_rows == db.tables[Lower(parsed.table)].rows
  IN IF parsed.where # <<>>
     THEN Range(filter_rows(db.heap, all_rows, parsed.where))
     ELSE Range(all_rows)

\* C36: the rows an UPDATE targets depend on its table and its WHERE clause
\* alone: two UPDATE statements on the same state that differ only in the
\* quoted value assigned in SET target the same rows.
C36_TargetsIgnoreSetValues ==
  table_exists(DB, "s")
  => \A w \in WhereClauses : \A v1, v2 \in QuotedValues :
       Targets(DB, UpdateName(v1, w)) = Targets(DB, UpdateName(v2, w))

\* C37: when several add requests are in flight on the shared Database, the
\* INSERT of a request runs on the state its new id was computed from (no
\* statement of another request comes between the two), at most one request
\* is between the computation and the INSERT, and no two requests insert a
\* row with the same new id.
C37_AddRequestsSerialized ==
  [][/\ \A r \in Requests :
          (requests[r].pc = "computed" /\ requests'[r].pc = "done")
          => /\ requests[r].new_id = get_next_id(DB, "suppliers")
             /\ last'.stmt.values[1] = StrOf(get_next_id(DB, "suppliers"))
     /\ Cardinality({r \in Requests : requests'[r].pc = "computed"}) <= 1
     /\ \A r1, r2 \in Requests :
          (/\ r1 # r2
           /\ requests'[r1].pc = "done" /\ requests'[r1].status = "ok"
           /\ requests'[r2].pc = "done" /\ requests'[r2].status = "ok")
          => requests'[r1].new_id # requests'[r2].new_id]_vars

\* C37, its case: one request has inserted its row, a second one is between
\* get_next_id and its INSERT, and a third one has arrived and waits
C37_Witness ==
  \E r1, r2, r3 \in Requests :
    /\ requests[r1].pc = "done" /\ requests[r1].status = "ok"
    /\ requests[r2].pc = "computed" /\ requests[r2].new_id = requests[r1].new_id + 1
    /\ requests[r3].pc = "received"
    /\ running = r2

====
